---- MODULE Spec2Model ----
(***************************************************************************)
(* Model of the relay's delivery queue (relay_server/queue.py) and of its  *)
(* webhook nudge outbox (relay_server/queue.py, relay_server/webhooks.py)  *)
(* over the tables of relay_server/models.py.                              *)
(*                                                                         *)
(* Every QueueService._*_sync method opens its own SQLAlchemy session,     *)
(* reads with session.execute(select ...), assigns to the loaded objects   *)
(* and ends with session.commit(), which flushes one UPDATE per loaded row *)
(* addressed by primary key.  An action named after an operation (Lease,   *)
(* Ack, ...) is the whole method run as one transaction.  The methods run  *)
(* on worker threads (asyncio.to_thread), so two of them can be between    *)
(* their SELECT and their commit at the same time: <Op>Select and          *)
(* <Op>Commit are the two halves of the same method, and the               *)
(* specifications about concurrent calls interleave them.                  *)
(***************************************************************************)
EXTENDS Integers, Sequences, FiniteSets, TLC

VARIABLES
    dialect,            \* the engine behind storage.database_url
    keys,               \* AuthService._keys: the enabled backends
    webhook_debounce_seconds, \* QueueService._webhook_debounce_seconds
    messages,           \* table discord_messages, in insertion order
    deliveries,         \* table deliveries, in insertion order; id = index
    nudges,             \* table webhook_nudges: a set of rows
    sessions,           \* the open sessions: selected, not yet committed
    now,                \* the wall clock, datetime.now(timezone.utc)
    next_uuid,          \* the uuid4 values drawn so far are 1..next_uuid-1
    inserted,           \* what the last _enqueue_message_sync returned
    enqueuing,          \* enqueue_message calls waiting to schedule a nudge
    claimed,            \* process_once: the claimed nudges not yet delivered
    response,           \* the status code of the last HTTP response
    config,             \* AppConfig: the bots, the routes and the routing
    routing,            \* the RoutingTable built from config
    task,               \* WebhookDispatcher._task: running, or NULL
    backend_webhooks,   \* WebhookDispatcher._backend_webhooks
    request,            \* the last POST the dispatcher's client sent
    reaper_task         \* reap_expired_leases: about to reap, asleep, or NULL

vars ==
    <<dialect, keys, webhook_debounce_seconds, messages, deliveries,
      nudges, sessions, now, next_uuid, inserted, enqueuing, claimed,
      response, config, routing, task,
      backend_webhooks, request, reaper_task>>

----------------------------------------------------------------------------
\* Bounds of the model.

\* Discord message ids the gateway delivers: 1..MaxMessageId.
MaxMessageId == 2
\* The clock runs from 0 to MaxTime.
MaxTime == 2
\* Sessions open at the same time (worker threads in use).
MaxSessions == 2
\* Entries of config.routes.
MaxRoutes == 2
\* uuid4 draws that are stored (lease ids) in one run.
MaxUuid == 2

----------------------------------------------------------------------------
\* Values.

\* A NULL in a nullable DateTime or String column.
None == -1
\* A NULL in a nullable Text column.
NULL == "NULL"

\* No POST was sent yet.
NoRequest == [url |-> NULL]

PENDING == "pending"
LEASED == "leased"
DELIVERED == "delivered"

LEASE_EXPIRED == "Lease expired"

Backends == {"alpha", "beta"}
DiscordBots == {"discord_a"}
MessageIds == 1..MaxMessageId
\* The arguments the API layer passes on.
Limits == {1, 2}
LeaseSeconds == {1}
Reasons == {NULL, "boom"}
\* LeaseRequest.conversation_history_limit (gt=0).
HistoryLimits == {1, 2}
\* DiscordMessageRecord.channel_id (Optional) and .timestamp.
ChannelIds == {NULL, "1", "2"}
Timestamps == 0..MaxTime

Dialects == {"sqlite", "postgresql"}

\* dedupe_key = f"{self._bot_config.id}:{message.id}"
DedupeKey(discord_bot_id, discord_message_id) ==
    <<discord_bot_id, discord_message_id>>

DeliveryIds == 1..Len(deliveries)

Range(s) == {s[i] : i \in 1..Len(s)}

----------------------------------------------------------------------------
\* Routing (relay_server/routing.py over relay_server/config.py).

\* RouteScope
DM_USER == "dm_user"
CHANNEL == "channel"
GUILD == "guild"

\* A dict as a function; dict.get(key) and dict[key] = value.
EmptyDict == [k \in {} |-> NULL]

Get(dict, key) == IF key \in DOMAIN dict THEN dict[key] ELSE NULL

GetDict(dict, key) == IF key \in DOMAIN dict THEN dict[key] ELSE EmptyDict

Put(dict, key, value) ==
    [k \in DOMAIN dict \cup {key} |-> IF k = key THEN value ELSE dict[k]]

\* "if backend:" and "if ctx.channel_id": neither None nor empty.
Truthy(str) == str # NULL /\ str # ""

\* The configurations: discord bot discord_a and the backends alpha and
\* beta are configured; discord_x and gamma are names of nothing.
RouteConfigs ==
    [discord_bot_id : DiscordBots \cup {"discord_x"},
     scope_type : {DM_USER, CHANNEL, GUILD},
     scope_id : {"1"},
     backend_bot_id : Backends \cup {"gamma"}]

RouteLists ==
    UNION {[1..n -> RouteConfigs] : n \in 0..MaxRoutes}

Precedences ==
    {<<DM_USER, CHANNEL, GUILD, "default">>,
     <<"default", GUILD, CHANNEL, DM_USER>>,
     <<DM_USER, CHANNEL, "default">>,
     <<CHANNEL, DM_USER, GUILD>>,
     <<GUILD, "default">>,
     <<>>}

DefaultsDicts ==
    {EmptyDict,
     [k \in {"discord_a"} |-> "alpha"],
     [k \in {"discord_a"} |-> "gamma"],
     [k \in {"discord_x"} |-> "alpha"]}

AppConfigs ==
    [discord_bots : {DiscordBots},
     backend_bots : {Backends},
     channel_allowlist : {{"1"}},
     precedence : Precedences,
     defaults : DefaultsDicts,
     routes : RouteLists]

\* A configuration without routes: RoutingConfig's default precedence.
NoRoutes ==
    [discord_bots |-> DiscordBots,
     backend_bots |-> Backends,
     channel_allowlist |-> {"1"},
     precedence |-> <<DM_USER, CHANNEL, GUILD, "default">>,
     defaults |-> EmptyDict,
     routes |-> <<>>]

\* RoutingTable.__init__ raised ConfigError: no table.
ConfigError ==
    [error |-> "ConfigError", precedence |-> <<>>, defaults |-> EmptyDict,
     dm_routes |-> EmptyDict, channel_routes |-> EmptyDict,
     guild_routes |-> EmptyDict]

\* The attribute that holds the routes of a scope type.
TableOf(scope_type) ==
    CASE scope_type = DM_USER -> "dm_routes"
      [] scope_type = CHANNEL -> "channel_routes"
      [] scope_type = GUILD -> "guild_routes"

\* The loop "for route in config.routes" from a table t on.
RECURSIVE AddRoutes(_, _, _)
AddRoutes(t, cfg, routes) ==
    IF routes = <<>> THEN t
    ELSE LET route == Head(routes) IN
         IF route.discord_bot_id \notin cfg.discord_bots THEN ConfigError
         ELSE IF route.backend_bot_id \notin cfg.backend_bots THEN ConfigError
         ELSE LET attr == TableOf(route.scope_type)
                  table == GetDict(t[attr], route.discord_bot_id)
              IN IF route.scope_id \in DOMAIN table THEN ConfigError
                 ELSE AddRoutes(
                        [t EXCEPT ![attr] =
                            Put(@, route.discord_bot_id,
                                Put(table, route.scope_id,
                                    route.backend_bot_id))],
                        cfg, Tail(routes))

\* RoutingTable.__init__(config): the tables, or ConfigError.
RoutingTable(cfg) ==
    LET t == AddRoutes([error |-> NULL,
                        precedence |-> cfg.precedence,
                        defaults |-> cfg.defaults,
                        dm_routes |-> EmptyDict,
                        channel_routes |-> EmptyDict,
                        guild_routes |-> EmptyDict], cfg, cfg.routes)
    IN IF t.error # NULL THEN ConfigError
       ELSE IF \E bot_id \in DOMAIN cfg.defaults :
                  bot_id \notin cfg.discord_bots
       THEN ConfigError
       ELSE t

\* MessageContext(discord_bot_id, author_id, channel_id, guild_id, is_dm)
MessageContexts ==
    [discord_bot_id : DiscordBots,
     author_id : {"1", "2"},
     channel_id : {NULL, "1", "2"},
     guild_id : {NULL, "1"},
     is_dm : BOOLEAN]

\* The conditions of the branches with a CHANNEL branch that does not look
\* at is_dm.
ScopeMatches_ChannelOfDm(scope, ctx) ==
    CASE scope = DM_USER -> ctx.is_dm
      [] scope = CHANNEL -> Truthy(ctx.channel_id)
      [] scope = GUILD -> Truthy(ctx.guild_id)
      [] scope = "default" -> TRUE
      [] OTHER -> FALSE

\* The condition of the branch of resolve_backend that a scope takes.
ScopeMatches(scope, ctx) ==
    CASE scope = DM_USER -> ctx.is_dm
      [] scope = CHANNEL -> ~ctx.is_dm /\ Truthy(ctx.channel_id)
      [] scope = GUILD -> Truthy(ctx.guild_id)
      [] scope = "default" -> TRUE
      [] OTHER -> FALSE

\* The lookup of that branch.
ScopeLookup(t, scope, ctx) ==
    CASE scope = DM_USER ->
            Get(GetDict(t.dm_routes, ctx.discord_bot_id), ctx.author_id)
      [] scope = CHANNEL ->
            Get(GetDict(t.channel_routes, ctx.discord_bot_id), ctx.channel_id)
      [] scope = GUILD ->
            Get(GetDict(t.guild_routes, ctx.discord_bot_id), ctx.guild_id)
      [] scope = "default" -> Get(t.defaults, ctx.discord_bot_id)

\* The loop "for scope in self._precedence" from a position on.
RECURSIVE Scan(_, _, _)
Scan(t, precedence, ctx) ==
    IF precedence = <<>> THEN NULL
    ELSE LET scope == Head(precedence) IN
         IF /\ ScopeMatches(scope, ctx)
            /\ Truthy(ScopeLookup(t, scope, ctx))
         THEN ScopeLookup(t, scope, ctx)
         ELSE Scan(t, Tail(precedence), ctx)

\* RoutingTable.resolve_backend(ctx): a backend id, or NULL for None.
ResolveBackend(ctx) == Scan(routing, routing.precedence, ctx)

----------------------------------------------------------------------------
\* The flush of one loaded object at session.commit(): SQLAlchemy emits
\* UPDATE ... SET <the attributes with a net change against the loaded
\* value> WHERE id = <primary key>, so the other columns keep whatever the
\* row holds by then.
Flush(current, loaded, assigned) ==
    [c \in DOMAIN current |->
        IF c \in DOMAIN assigned /\ assigned[c] # loaded[c]
        THEN assigned[c] ELSE current[c]]

\* The rows an open session has loaded by SELECT ... FOR UPDATE.  Only an
\* engine that renders FOR UPDATE holds row locks for them until commit;
\* SQLAlchemy's SQLite compiler renders nothing for it.
LockedBy(s) ==
    IF dialect = "postgresql" /\ s.op = "lease" THEN Range(s.rows) ELSE {}

LockedByOthers(s) == UNION {LockedBy(o) : o \in sessions \ {s}}

\* select(Delivery).where(backend_bot_id == b, state == PENDING)
PendingOf(backend_bot_id) ==
    {d \in DeliveryIds :
        /\ deliveries[d].backend_bot_id = backend_bot_id
        /\ deliveries[d].state = PENDING}

\* The selection without its ORDER BY: any limit of the candidates.
OrderedLimit_Unordered(cands, limit) ==
    LET n == IF Cardinality(cands) < limit THEN Cardinality(cands) ELSE limit
    IN {q \in [1..n -> cands] : \A i, j \in 1..n : i < j => q[i] # q[j]}

\* .order_by(Delivery.created_at).limit(limit): the possible result lists.
\* Rows with equal created_at come in an order the engine chooses.
OrderedLimit(cands, limit) ==
    LET n == IF Cardinality(cands) < limit THEN Cardinality(cands) ELSE limit
    IN {q \in [1..n -> cands] :
          /\ \A i, j \in 1..n : i < j => q[i] # q[j]
          /\ \A i, j \in 1..n :
                i < j => deliveries[q[i]].created_at <= deliveries[q[j]].created_at
          /\ \A d \in cands \ {q[i] : i \in 1..n} :
                \A i \in 1..n :
                    deliveries[q[i]].created_at <= deliveries[d].created_at}

\* A session after its SELECT: the ids of the loaded rows in result order,
\* the loaded objects (id -> the row as it was read), and the locals of the
\* method.
Session(op, backend_bot_id, rows, t) ==
    [op |-> op, backend_bot_id |-> backend_bot_id, rows |-> rows,
     loaded |-> [d \in Range(rows) |-> deliveries[d]], now |-> t,
     lease_id |-> None, lease_expires_at |-> None, reason |-> NULL]

\* What the loop of each method assigns on a delivery it loaded.
\* The loop of the fetch without its delivered_at stamp.
FetchAssigned_Unstamped(s, loaded) ==
    [state |-> DELIVERED]

FetchAssigned(s, loaded) ==
    [state |-> DELIVERED, delivered_at |-> s.now]

\* The loop of the lease without its assignment of lease_expires_at.
LeaseAssigned_Unstored(s, loaded) ==
    [state |-> LEASED, lease_id |-> s.lease_id,
     attempts |-> loaded.attempts + 1]

LeaseAssigned(s, loaded) ==
    [state |-> LEASED, lease_id |-> s.lease_id,
     lease_expires_at |-> s.lease_expires_at,
     attempts |-> loaded.attempts + 1]

AckAssigned(s, loaded) ==
    [state |-> DELIVERED, delivered_at |-> s.now]

\* The loop of Nack with an undo of the lease's count of the attempt.
NackAssigned_Decrement(s, loaded) ==
    [state |-> PENDING, lease_id |-> None, lease_expires_at |-> None,
     last_error |-> s.reason, attempts |-> loaded.attempts - 1]

\* A nack that puts the delivery at the back of the queue.
NackAssigned_Requeue(s, loaded) ==
    [state |-> PENDING, lease_id |-> None, lease_expires_at |-> None,
     last_error |-> s.reason, created_at |-> now]

NackAssigned(s, loaded) ==
    [state |-> PENDING, lease_id |-> None, lease_expires_at |-> None,
     last_error |-> s.reason]

\* The loop of the reaper giving the delivery its attempts back.
ReapAssigned_ResetAttempts(s, loaded) ==
    [state |-> PENDING, lease_id |-> None, lease_expires_at |-> None,
     last_error |-> LEASE_EXPIRED, attempts |-> 0]

ReapAssigned(s, loaded) ==
    [state |-> PENDING, lease_id |-> None, lease_expires_at |-> None,
     last_error |-> LEASE_EXPIRED]

\* The assignments of the method the session belongs to.
Assigned(s, loaded) ==
    CASE s.op = "fetch" -> FetchAssigned(s, loaded)
      [] s.op = "lease" -> LeaseAssigned(s, loaded)
      [] s.op = "ack" -> AckAssigned(s, loaded)
      [] s.op = "nack" -> NackAssigned(s, loaded)
      [] s.op = "reap" -> ReapAssigned(s, loaded)

\* session.commit() of a session whose loop made the assignments
\* Assigned(s, loaded row) on each object it loaded.
CommitRows(s) ==
    [d \in DeliveryIds |->
        IF d \in Range(s.rows)
        THEN Flush(deliveries[d], s.loaded[d], Assigned(s, s.loaded[d]))
        ELSE deliveries[d]]

\* A commit writes rows: on an engine with row locks it waits for the
\* locks other sessions hold on them.
CanCommit(s) == Range(s.rows) \cap LockedByOthers(s) = {}

\* SELECT ... FOR UPDATE waits for the row locks other sessions hold on
\* the rows it selects.  The model lets the waiting SELECT run once the
\* locks are gone, on the rows as they are then.
CanLock(s) == Range(s.rows) \cap LockedByOthers(s) = {}

\* A worker thread of the pool behind asyncio.to_thread is free.
ThreadFree == Cardinality(sessions) < MaxSessions

\* The whole method as one transaction: SELECT, loop, commit.
Run(s) ==
    /\ ThreadFree
    /\ CanCommit(s)
    /\ deliveries' = CommitRows(s)
    /\ UNCHANGED sessions

\* The first half of the method: after its SELECT and its loop the session
\* stays open until its commit.  A session that loaded no row has nothing
\* to flush, its commit changes nothing: it is not kept open.
Open(s) ==
    /\ ThreadFree
    /\ UNCHANGED deliveries
    /\ sessions' = IF s.rows = <<>> THEN sessions ELSE sessions \cup {s}

\* The second half: session.commit() of an open session.
Commit(s) ==
    /\ CanCommit(s)
    /\ deliveries' = CommitRows(s)
    /\ sessions' = sessions \ {s}

----------------------------------------------------------------------------
\* The state after create_session_factory(): empty tables.
InitTables ==
    /\ messages = <<>>
    /\ deliveries = <<>>
    /\ nudges = {}
    /\ sessions = {}
    /\ now = 0
    /\ next_uuid = 1
    /\ inserted = FALSE
    /\ enqueuing = {}
    /\ request = NoRequest
    /\ reaper_task = "reap"
    /\ claimed = <<>>
    /\ response = None

\* The relay started from a configuration without routes.
Unrouted ==
    /\ config = NoRoutes
    /\ routing = RoutingTable(NoRoutes)

\* The default storage.database_url; no backend has a webhook.
Init ==
    /\ dialect = "sqlite"
    /\ keys = Backends
    /\ webhook_debounce_seconds = [b \in {} |-> 0]
    /\ InitTables
    /\ Unrouted
    /\ task = NULL
    /\ backend_webhooks = EmptyDict

----------------------------------------------------------------------------
\* Time passes.
Tick ==
    /\ now < MaxTime
    /\ now' = now + 1
    /\ UNCHANGED <<dialect, keys, webhook_debounce_seconds, messages,
                   deliveries, nudges, sessions, next_uuid, inserted,
                   enqueuing, claimed, response, config, routing, task,
                   backend_webhooks, request, reaper_task>>

\* RelayDiscordClient.on_message: the DiscordMessageRecord of a message that
\* the gateway hands over as it is sent (timestamp = now) in channel "1".
Payload(discord_bot_id, discord_message_id) ==
    [discord_bot_id |-> discord_bot_id,
     discord_message_id |-> discord_message_id,
     channel_id |-> "1",
     timestamp |-> now]

\* The tables without their UNIQUE constraints: no INSERT is refused.
Duplicate_Unconstrained(discord_bot_id, discord_message_id, dedupe_key) ==
    FALSE

\* The INSERT of _enqueue_message_sync raises IntegrityError: dedupe_key is
\* UNIQUE, and so is (discord_bot_id, discord_message_id).
Duplicate(discord_bot_id, discord_message_id, dedupe_key) ==
    \E i \in 1..Len(messages) :
        \/ messages[i].dedupe_key = dedupe_key
        \/ /\ messages[i].discord_bot_id = discord_bot_id
           /\ messages[i].discord_message_id = discord_message_id

\* An enqueue that fans a stored message out: a key that is already stored
\* gets a further delivery for the backend of the call.
EnqueueSync_FanOut(backend_bot_id, payload, dedupe_key) ==
    /\ inserted' = ~Duplicate(payload.discord_bot_id,
                              payload.discord_message_id, dedupe_key)
    /\ messages' =
           IF inserted'
           THEN Append(messages,
                    [dedupe_key |-> dedupe_key,
                     discord_bot_id |-> payload.discord_bot_id,
                     discord_message_id |-> payload.discord_message_id,
                     channel_id |-> payload.channel_id,
                     timestamp |-> payload.timestamp,
                     created_at |-> now])
           ELSE messages
    /\ deliveries' = Append(deliveries,
           [discord_message_id |->
                IF inserted'
                THEN Len(messages) + 1
                ELSE CHOOSE i \in 1..Len(messages) :
                        \/ messages[i].dedupe_key = dedupe_key
                        \/ /\ messages[i].discord_bot_id =
                                  payload.discord_bot_id
                           /\ messages[i].discord_message_id =
                                  payload.discord_message_id,
            backend_bot_id |-> backend_bot_id,
            state |-> PENDING,
            delivered_at |-> None,
            lease_id |-> None,
            lease_expires_at |-> None,
            attempts |-> 0,
            last_error |-> NULL,
            created_at |-> now])

\* QueueService._enqueue_message_sync: INSERT the message and its delivery
\* in one transaction and return True; on IntegrityError roll back and
\* return False.
EnqueueSync(backend_bot_id, payload, dedupe_key) ==
    IF Duplicate(payload.discord_bot_id, payload.discord_message_id,
                 dedupe_key)
    THEN /\ inserted' = FALSE
         /\ UNCHANGED <<messages, deliveries>>
    ELSE /\ inserted' = TRUE
         /\ messages' = Append(messages,
                [dedupe_key |-> dedupe_key,
                 discord_bot_id |-> payload.discord_bot_id,
                 discord_message_id |-> payload.discord_message_id,
                 channel_id |-> payload.channel_id,
                 timestamp |-> payload.timestamp,
                 created_at |-> now])
         /\ deliveries' = Append(deliveries,
                [discord_message_id |-> Len(messages) + 1,
                 backend_bot_id |-> backend_bot_id,
                 state |-> PENDING,
                 delivered_at |-> None,
                 lease_id |-> None,
                 lease_expires_at |-> None,
                 attempts |-> 0,
                 last_error |-> NULL,
                 created_at |-> now])

\* RelayDiscordClient.on_message -> QueueService.enqueue_message: the
\* insert, and then, if the message was inserted and the backend has a
\* webhook debounce, a call of _schedule_webhook_nudge_sync in a second
\* worker thread, which runs when it runs.
EnqueueCall(backend_bot_id, discord_bot_id, discord_message_id) ==
    LET dedupe_key == DedupeKey(discord_bot_id, discord_message_id) IN
    /\ ThreadFree
    /\ EnqueueSync(backend_bot_id,
                   Payload(discord_bot_id, discord_message_id), dedupe_key)
    /\ enqueuing' =
            IF /\ ~Duplicate(discord_bot_id, discord_message_id, dedupe_key)
               /\ backend_bot_id \in DOMAIN webhook_debounce_seconds
            THEN enqueuing \cup
                    {[backend_bot_id |-> backend_bot_id,
                      dedupe_key |-> dedupe_key,
                      debounce_seconds |->
                          webhook_debounce_seconds[backend_bot_id]]}
            ELSE enqueuing
    /\ UNCHANGED <<dialect, keys, webhook_debounce_seconds, nudges,
                   sessions, now, next_uuid, claimed, response, config,
                   routing, task,
                   backend_webhooks, request, reaper_task>>

Enqueue ==
    \E b \in keys, bot \in DiscordBots, m \in MessageIds :
        EnqueueCall(b, bot, m)

\* What the other operations leave alone.
Rest ==
    <<dialect, keys, webhook_debounce_seconds, messages, nudges, now,
      inserted, enqueuing, claimed, response, config, routing, task,
      backend_webhooks, request, reaper_task>>

----------------------------------------------------------------------------
\* QueueService._fetch_and_mark_delivered_sync (GET /v1/messages/pending):
\* the sessions a call can be in after its SELECT.
FetchSessions(backend_bot_id, limit) ==
    {Session("fetch", backend_bot_id, rows, now) :
        rows \in OrderedLimit(PendingOf(backend_bot_id), limit)}

\* The DeliveryRecords returned, by delivery id.
FetchReturn(s) == s.rows

FetchRun(s) ==
    /\ Run(s)
    /\ UNCHANGED Rest
    /\ UNCHANGED next_uuid

Fetch ==
    \E s \in UNION {FetchSessions(b, limit) : b \in keys, limit \in Limits} :
        FetchRun(s)

FetchSelect ==
    \E s \in UNION {FetchSessions(b, limit) : b \in keys, limit \in Limits} :
        /\ Open(s)
        /\ UNCHANGED Rest
        /\ UNCHANGED next_uuid

FetchCommit ==
    \E s \in sessions :
        /\ s.op = "fetch"
        /\ Commit(s)
        /\ UNCHANGED Rest
        /\ UNCHANGED next_uuid

----------------------------------------------------------------------------
\* A lease id that every call uses again: the first one drawn.
Uuid4_Constant == IF next_uuid > 1 THEN 1 ELSE next_uuid

\* str(uuid.uuid4()): a value never drawn before.
Uuid4 == next_uuid

\* QueueService._lease_messages_sync: the sessions a call can be in after
\* its SELECT ... FOR UPDATE.  uuid4() is a value never drawn before.
LeaseSessions(backend_bot_id, limit, lease_seconds) ==
    {[Session("lease", backend_bot_id, rows, now) EXCEPT
        !.lease_id = Uuid4,
        !.lease_expires_at = now + lease_seconds] :
        rows \in OrderedLimit(PendingOf(backend_bot_id), limit)}

\* The LeasedDeliveryRecords returned, by delivery id.
LeaseReturn(s) == s.rows

\* leased_records: one LeasedDeliveryRecord per loaded delivery, built in
\* the loop from the delivery and from the locals lease_id and
\* lease_expires_at.
LeaseRecords(s) ==
    [i \in 1..Len(s.rows) |->
        [delivery_id |-> s.rows[i],
         lease_id |-> s.lease_id,
         backend_bot_id |-> s.loaded[s.rows[i]].backend_bot_id,
         message |-> s.loaded[s.rows[i]].discord_message_id,
         lease_expires_at |-> s.lease_expires_at]]

\* .where(DiscordMessage.channel_id == channel_id,
\*        DiscordMessage.timestamp <= first_msg.timestamp): the messages the
\* history is taken from, by message id.
History(first_msg) ==
    {i \in 1..Len(messages) :
        /\ messages[i].channel_id = first_msg.channel_id
        /\ messages[i].timestamp <= first_msg.timestamp}

\* The history query reading the oldest rows first.
MostRecent_Oldest(rows, limit) ==
    {q \in UNION {[1..n -> rows] : n \in 0..limit} :
        /\ Len(q) = limit \/ Len(q) = Cardinality(rows)
        /\ \A i, j \in 1..Len(q) : i < j => q[i] # q[j]
        /\ \A i, j \in 1..Len(q) :
              i < j => messages[q[i]].timestamp <= messages[q[j]].timestamp
        /\ \A i \in 1..Len(q), d \in rows \ Range(q) :
              messages[q[i]].timestamp <= messages[d].timestamp}

\* .order_by(DiscordMessage.timestamp.desc()).limit(limit).all(): the
\* lists the engine can return; rows of equal timestamp come in any order.
MostRecent(rows, limit) ==
    {q \in UNION {[1..n -> rows] : n \in 0..limit} :
        /\ Len(q) = limit \/ Len(q) = Cardinality(rows)
        /\ \A i, j \in 1..Len(q) : i < j => q[i] # q[j]
        /\ \A i, j \in 1..Len(q) :
              i < j => messages[q[i]].timestamp >= messages[q[j]].timestamp
        /\ \A i \in 1..Len(q), d \in rows \ Range(q) :
              messages[q[i]].timestamp >= messages[d].timestamp}

\* reversed(history_messages)
Reversed(q) == [i \in 1..Len(q) |-> q[Len(q) + 1 - i]]

\* conversation_history, by message id: the lists the call can return.  It
\* is filled only "if include_conversation_history and leased_records", and
\* then only "if channel_id", the channel of leased_records[0].message.
LeaseHistory(s, include_conversation_history, conversation_history_limit) ==
    IF include_conversation_history /\ LeaseRecords(s) # <<>>
    THEN LET first_msg == messages[LeaseRecords(s)[1].message] IN
         IF Truthy(first_msg.channel_id)
         THEN {Reversed(q) :
                  q \in MostRecent(History(first_msg),
                                   conversation_history_limit)}
         ELSE {<<>>}
    ELSE {<<>>}

\* A draw of uuid4() that no row stores and no record carries is not
\* counted against MaxUuid.
DrawLeaseId(s) ==
    /\ s.rows # <<>> => next_uuid <= MaxUuid
    /\ next_uuid' = IF s.rows = <<>> THEN next_uuid ELSE next_uuid + 1

LeaseRun(s) ==
    /\ DrawLeaseId(s)
    /\ CanLock(s)
    /\ Run(s)
    /\ UNCHANGED Rest

Lease ==
    \E s \in UNION {LeaseSessions(b, limit, secs) :
                       b \in keys, limit \in Limits, secs \in LeaseSeconds} :
        LeaseRun(s)

LeaseSelect ==
    \E s \in UNION {LeaseSessions(b, limit, secs) :
                       b \in keys, limit \in Limits, secs \in LeaseSeconds} :
        /\ DrawLeaseId(s)
        /\ CanLock(s)
        /\ Open(s)
        /\ UNCHANGED Rest

LeaseCommit ==
    \E s \in sessions :
        /\ s.op = "lease"
        /\ Commit(s)
        /\ UNCHANGED Rest
        /\ UNCHANGED next_uuid

----------------------------------------------------------------------------
\* The selector without its backend condition.
Matching_AnyBackend(backend_bot_id, delivery_ids, lease_id) ==
    {d \in DeliveryIds :
        /\ d \in delivery_ids
        /\ deliveries[d].state = LEASED
        /\ deliveries[d].lease_id = lease_id}

\* The selector without its lease_id condition.
Matching_AnyLease(backend_bot_id, delivery_ids, lease_id) ==
    {d \in DeliveryIds :
        /\ deliveries[d].backend_bot_id = backend_bot_id
        /\ d \in delivery_ids
        /\ deliveries[d].state = LEASED}

\* The selector of Ack and Nack:
\* select(Delivery).where(backend_bot_id == b, id.in_(delivery_ids),
\*                        state == LEASED, lease_id == lease_id)
Matching(backend_bot_id, delivery_ids, lease_id) ==
    {d \in DeliveryIds :
        /\ deliveries[d].backend_bot_id = backend_bot_id
        /\ d \in delivery_ids
        /\ deliveries[d].state = LEASED
        /\ deliveries[d].lease_id = lease_id}

\* A result list of a SELECT without ORDER BY: the rows in the order the
\* engine scans them, here by id.
RECURSIVE ById(_)
ById(ids) ==
    IF ids = {} THEN <<>>
    ELSE LET m == CHOOSE x \in ids : \A y \in ids : x <= y
         IN <<m>> \o ById(ids \ {m})

\* What a caller can present: ids of deliveries that exist, lease ids that
\* were handed out.
NamedSets == SUBSET DeliveryIds \ {{}}
LeaseIds == 1..(next_uuid - 1)

\* QueueService._acknowledge_deliveries_sync after its SELECT.
AckSession(backend_bot_id, delivery_ids, lease_id) ==
    Session("ack", backend_bot_id,
            ById(Matching(backend_bot_id, delivery_ids, lease_id)), now)

\* return len(deliveries)
AckReturn(s) == Len(s.rows)

AckRun(s) ==
    /\ Run(s)
    /\ UNCHANGED Rest
    /\ UNCHANGED next_uuid

Ack ==
    \E s \in {AckSession(b, ids, l) :
                b \in keys, ids \in NamedSets, l \in LeaseIds} :
        AckRun(s)

\* QueueService._negative_acknowledge_deliveries_sync after its SELECT.
NackSession(backend_bot_id, delivery_ids, lease_id, reason) ==
    [Session("nack", backend_bot_id,
             ById(Matching(backend_bot_id, delivery_ids, lease_id)), now)
        EXCEPT !.reason = reason]

\* return len(deliveries)
NackReturn(s) == Len(s.rows)

NackRun(s) ==
    /\ Run(s)
    /\ UNCHANGED Rest
    /\ UNCHANGED next_uuid

Nack ==
    \E s \in {NackSession(b, ids, l, r) :
                b \in keys, ids \in NamedSets, l \in LeaseIds,
                r \in Reasons} :
        NackRun(s)

----------------------------------------------------------------------------
\* The reaper's selector without its condition on lease_expires_at.
Expired_AtOnce(t) ==
    {d \in DeliveryIds : deliveries[d].state = LEASED}

\* The reaper's selector with lease_expires_at <= now.
Expired_Inclusive(t) ==
    {d \in DeliveryIds :
        /\ deliveries[d].state = LEASED
        /\ deliveries[d].lease_expires_at # None
        /\ deliveries[d].lease_expires_at <= t}

\* select(Delivery).where(state == LEASED, lease_expires_at < now); a NULL
\* lease_expires_at compares as unknown and does not match.
Expired(t) ==
    {d \in DeliveryIds :
        /\ deliveries[d].state = LEASED
        /\ deliveries[d].lease_expires_at # None
        /\ deliveries[d].lease_expires_at < t}

\* QueueService._reap_expired_leases_sync after its SELECT.
ReapSession == Session("reap", "", ById(Expired(now)), now)

\* return len(deliveries)
ReapReturn(s) == Len(s.rows)

ReapRun(s) ==
    /\ Run(s)
    /\ UNCHANGED Rest
    /\ UNCHANGED next_uuid

Reap == \E s \in {ReapSession} : ReapRun(s)

ReapSelect ==
    /\ Open(ReapSession)
    /\ UNCHANGED Rest
    /\ UNCHANGED next_uuid

ReapCommit ==
    \E s \in sessions :
        /\ s.op = "reap"
        /\ Commit(s)
        /\ UNCHANGED Rest
        /\ UNCHANGED next_uuid

\* The loop without its try/except: the exception ends the task.
AfterError_Uncaught == NULL

\* "except Exception as exc: LOG.exception(...)": the loop goes on to its
\* asyncio.sleep(60).
AfterError == "sleep"

\* reap_expired_leases, one turn of "while True": the pass returns its
\* count and the task goes to sleep.
ReaperPass ==
    /\ reaper_task = "reap"
    /\ Run(ReapSession)
    /\ reaper_task' = "sleep"
    /\ UNCHANGED <<dialect, keys, webhook_debounce_seconds, messages, nudges,
                   now, next_uuid, inserted, enqueuing, claimed, response,
                   config, routing, task, backend_webhooks, request>>

\* The pass raises (the engine is unreachable, the database is locked):
\* its session commits nothing.
ReaperRaises ==
    /\ reaper_task = "reap"
    /\ reaper_task' = AfterError
    /\ UNCHANGED <<dialect, keys, webhook_debounce_seconds, messages,
                   deliveries, nudges, sessions, now, next_uuid, inserted,
                   enqueuing, claimed, response, config, routing, task,
                   backend_webhooks, request>>

\* asyncio.sleep(60) returns.
ReaperWake ==
    /\ reaper_task = "sleep"
    /\ reaper_task' = "reap"
    /\ UNCHANGED <<dialect, keys, webhook_debounce_seconds, messages,
                   deliveries, nudges, sessions, now, next_uuid, inserted,
                   enqueuing, claimed, response, config, routing, task,
                   backend_webhooks, request>>

----------------------------------------------------------------------------
\* Webhook nudges.  A row of webhook_nudges is modelled with the columns
\* the scheduler and the dispatcher decide on; discord_bot_id, created_at
\* and updated_at are written and never read by them.

SENDING == "sending"
FAILED == "failed"

\* session.execute(...).scalars().first() found no row.
NoNudge == [id |-> None]

\* backend_webhooks[backend_bot_id]: the WebhookConfig of a backend, as
\* configured in the runs with a webhook.
BackendWebhooks ==
    [b \in {"alpha"} |->
        [url |-> "https://alpha.example/hook",
         secret |-> "s3cret", secret_env |-> NULL,
         max_retries |-> 1, retry_backoff_seconds |-> <<1>>]]

\* resp.status_code of the responses the receiver gives.
StatusCodes == {200, 204, 400, 429, 500}

\* What os.getenv(secret_env) gives: unset, empty, or a value.
EnvValues == {NULL, "", "envsecret"}

\* What one _deliver_one meets: the value of the environment variable, and
\* either the exception client.post raises or the status of its response.
Outcomes ==
    [env_value : EnvValues, request_error : {NULL}, status_code : StatusCodes]
    \cup [env_value : EnvValues, request_error : {"ConnectError"},
          status_code : {None}]

\* webhook_nudges without its UNIQUE constraint, read by a scheduler that
\* finds no row.
NudgeConflict_Unconstrained(backend_bot_id) == FALSE

\* The INSERT of _schedule_webhook_nudge_sync raises IntegrityError:
\* webhook_nudges.backend_bot_id is UNIQUE.
NudgeConflict(backend_bot_id) ==
    \E r \in nudges : r.backend_bot_id = backend_bot_id

\* _schedule_webhook_nudge_sync after its SELECT: now, next_attempt_at and
\* the row it found, if any.
ScheduleSession(call) ==
    {[op |-> "schedule", backend_bot_id |-> call.backend_bot_id,
      dedupe_key |-> call.dedupe_key, rows |-> <<>>, now |-> now,
      next_attempt_at |->
          now + (IF call.debounce_seconds > 0 THEN call.debounce_seconds ELSE 0),
      loaded |-> r] :
        r \in IF NudgeConflict(call.backend_bot_id)
              THEN {r \in nudges : r.backend_bot_id = call.backend_bot_id}
              ELSE {NoNudge}}

ScheduleSelect ==
    \E call \in enqueuing : \E s \in ScheduleSession(call) :
        /\ ThreadFree
        /\ sessions' = sessions \cup {s}
        /\ enqueuing' = enqueuing \ {call}
        /\ UNCHANGED <<dialect, keys, webhook_debounce_seconds,
                       messages, deliveries, nudges, now, next_uuid, inserted,
                       claimed, response, config, routing, task,
                       backend_webhooks, request, reaper_task>>

\* The else-branch resetting attempts and last_error for SENDING as for
\* FAILED.
ScheduleAssigned_ResetSending(s, loaded) ==
    [last_dedupe_key |-> s.dedupe_key,
     next_attempt_at |-> s.next_attempt_at,
     state |-> IF loaded.state \in {FAILED, SENDING} THEN PENDING
               ELSE loaded.state,
     attempts |-> IF loaded.state \in {FAILED, SENDING} THEN 0
                  ELSE loaded.attempts,
     last_error |-> IF loaded.state \in {FAILED, SENDING} THEN NULL
                    ELSE loaded.last_error]

\* The else-branch without its refresh of last_dedupe_key.
ScheduleAssigned_FirstKey(s, loaded) ==
    [next_attempt_at |-> s.next_attempt_at,
     state |-> IF loaded.state \in {FAILED, SENDING} THEN PENDING
               ELSE loaded.state,
     attempts |-> IF loaded.state = FAILED THEN 0 ELSE loaded.attempts,
     last_error |-> IF loaded.state = FAILED THEN NULL ELSE loaded.last_error]

\* The attributes the else-branch assigns on the row it loaded.
ScheduleAssigned(s, loaded) ==
    [last_dedupe_key |-> s.dedupe_key,
     next_attempt_at |-> s.next_attempt_at,
     state |-> IF loaded.state \in {FAILED, SENDING} THEN PENDING
               ELSE loaded.state,
     attempts |-> IF loaded.state = FAILED THEN 0 ELSE loaded.attempts,
     last_error |-> IF loaded.state = FAILED THEN NULL ELSE loaded.last_error]

\* The UPDATE of a loaded row that is gone matches no row: StaleDataError.
NudgeStale(s) ==
    /\ s.loaded # NoNudge
    /\ \A r \in nudges : r.id # s.loaded.id

\* What enqueue_message gives its caller when an exception leaves it.
Raised == -2

\* The rollback if the message, its delivery and the nudge were written in
\* one transaction: the message and its delivery go with the nudge.
ScheduleRollback_OneTransaction(s) ==
    LET Others(m) == m.dedupe_key # s.dedupe_key
        OfOthers(d) == Others(messages[d.discord_message_id])
    IN [messages |-> SelectSeq(messages, Others),
        deliveries |-> SelectSeq(deliveries, OfOthers),
        nudges |-> nudges,
        response |-> None]

\* except Exception: session.rollback(), LOG.exception(...), and no raise.
\* The session is the scheduler's own and wrote to webhook_nudges only:
\* the tables are as they were committed, and enqueue_message returns None.
ScheduleRollback(s) ==
    [messages |-> messages,
     deliveries |-> deliveries,
     nudges |-> nudges,
     response |-> None]

\* session.commit() of the scheduler.  A new row is INSERTed; the INSERT
\* fails on a row of the same backend.  A loaded row is UPDATEd by primary
\* key; the UPDATE of a row that is gone fails.  The commit can fail for a
\* reason of the engine as well (error).  Every failure is caught by
\* "except Exception".
ScheduleCommit ==
    \E s \in sessions : \E error \in BOOLEAN :
        /\ s.op = "schedule"
        /\ sessions' = sessions \ {s}
        /\ IF \/ error
              \/ s.loaded = NoNudge /\ NudgeConflict(s.backend_bot_id)
              \/ NudgeStale(s)
           THEN /\ messages' = ScheduleRollback(s).messages
                /\ deliveries' = ScheduleRollback(s).deliveries
                /\ nudges' = ScheduleRollback(s).nudges
                /\ response' = ScheduleRollback(s).response
                /\ UNCHANGED next_uuid
           ELSE /\ UNCHANGED <<messages, deliveries>>
                /\ response' = None
                /\ IF s.loaded = NoNudge
                   THEN /\ next_uuid <= MaxUuid
                        /\ next_uuid' = next_uuid + 1
                        /\ nudges' = nudges \cup
                               {[id |-> next_uuid,
                                 backend_bot_id |-> s.backend_bot_id,
                                 last_dedupe_key |-> s.dedupe_key,
                                 state |-> PENDING,
                                 attempts |-> 0,
                                 next_attempt_at |-> s.next_attempt_at,
                                 last_error |-> NULL]}
                   ELSE /\ UNCHANGED next_uuid
                        /\ nudges' =
                             {IF r.id = s.loaded.id
                              THEN Flush(r, s.loaded,
                                         ScheduleAssigned(s, s.loaded))
                              ELSE r : r \in nudges}
        /\ UNCHANGED <<dialect, keys, webhook_debounce_seconds, now, inserted,
                       enqueuing, claimed, config, routing, task,
                       backend_webhooks, request, reaper_task>>

\* The selection without its condition on next_attempt_at.
Due_AnyTime(t) == {r \in nudges : r.state = PENDING}

\* .where(state == PENDING, next_attempt_at <= now)
Due(t) == {r \in nudges : r.state = PENDING /\ r.next_attempt_at <= t}

\* .order_by(next_attempt_at): the possible orders of rows.
RECURSIVE ByNextAttempt(_)
ByNextAttempt(rows) ==
    IF rows = {} THEN {<<>>}
    ELSE UNION {{<<r>> \o q : q \in ByNextAttempt(rows \ {r})} :
                  r \in {x \in rows :
                           \A y \in rows : x.next_attempt_at <= y.next_attempt_at}}

\* process_once(limit=25): the default, and a pass called with limit 1.
ClaimLimits == {1, 25}

\* .order_by(next_attempt_at).limit(limit) over the due rows: the possible
\* result lists.
DueLimit(limit) ==
    {SubSeq(q, 1, IF Len(q) < limit THEN Len(q) ELSE limit) :
        q \in ByNextAttempt(Due(now))}

\* ClaimedNudge(id, backend_bot_id, discord_bot_id, last_dedupe_key, attempts)
ClaimedNudge(r) ==
    [id |-> r.id, backend_bot_id |-> r.backend_bot_id,
     last_dedupe_key |-> r.last_dedupe_key, attempts |-> r.attempts]

\* WebhookDispatcher.process_once up to its loop: _claim_due_nudges_sync
\* moves the due nudges to SENDING and returns them.
Claim ==
    /\ task = "running"
    /\ claimed = <<>>
    /\ Due(now) # {}
    /\ ThreadFree
    /\ \E limit \in ClaimLimits : \E q \in DueLimit(limit) :
          /\ claimed' = [i \in 1..Len(q) |-> ClaimedNudge(q[i])]
          /\ nudges' = {IF r \in Range(q) THEN [r EXCEPT !.state = SENDING]
                        ELSE r : r \in nudges}
    /\ UNCHANGED <<dialect, keys, webhook_debounce_seconds, messages,
                   deliveries, sessions, now, next_uuid, inserted, enqueuing,
                   response, config, routing, task,
                   backend_webhooks, request, reaper_task>>

\* _delete_nudge_sync(nudge_id)
DeleteNudge(nudge_id) == {r \in nudges : r.id # nudge_id}

\* _mark_failed_sync(nudge_id, error)
MarkFailed(nudge_id, error) ==
    {IF r.id = nudge_id
     THEN [r EXCEPT !.state = FAILED, !.last_error = error]
     ELSE r : r \in nudges}

\* _reschedule_nudge_sync(nudge_id, attempts, next_attempt_at, error)
RescheduleNudge(nudge_id, attempts, next_attempt_at, error) ==
    {IF r.id = nudge_id
     THEN [r EXCEPT !.state = PENDING, !.attempts = attempts,
                    !.next_attempt_at = next_attempt_at,
                    !.last_error = error]
     ELSE r : r \in nudges}

\* The backoff taken from the first entry whatever the attempt.
BackoffIdx_First(attempts, retry_backoff_seconds) == 1

\* max(0, min(attempts - 1, len(retry_backoff_seconds) - 1)), as an index
\* of a sequence that starts at 1.
BackoffIdx(attempts, retry_backoff_seconds) ==
    LET top == Len(retry_backoff_seconds) - 1
        i == IF attempts - 1 < top THEN attempts - 1 ELSE top
    IN (IF i > 0 THEN i ELSE 0) + 1

\* _schedule_retry without its limit: every failure is rescheduled.
ScheduleRetry_Unbounded(nudge, webhook, error) ==
    RescheduleNudge(nudge.id, nudge.attempts + 1,
        now + webhook.retry_backoff_seconds[
                BackoffIdx(nudge.attempts + 1, webhook.retry_backoff_seconds)],
        error)

\* _schedule_retry(nudge, webhook, error)
ScheduleRetry(nudge, webhook, error) ==
    LET attempts == nudge.attempts + 1 IN
    IF attempts > webhook.max_retries
    THEN MarkFailed(nudge.id, error)
    ELSE RescheduleNudge(nudge.id, attempts,
            now + webhook.retry_backoff_seconds[
                    BackoffIdx(attempts, webhook.retry_backoff_seconds)],
            error)

\* f"http_status:{resp.status_code}"
HttpStatusError(status_code) == "http_status:" \o ToString(status_code)

\* f"request_error:{exc.__class__.__name__}"
RequestError(class) == "request_error:" \o class

\* f"secret_error:{exc.__class__.__name__}"
SecretError(class) == "secret_error:" \o class

\* WebhookConfig.resolved_secret() returns a secret rather than raising
\* ConfigError, os.getenv(secret_env) being env_value.
SecretResolves(webhook, env_value) ==
    \/ Truthy(webhook.secret)
    \/ Truthy(webhook.secret_env) /\ Truthy(env_value)

\* WebhookConfig.resolved_secret()
ResolvedSecret(webhook, env_value) ==
    IF Truthy(webhook.secret) THEN webhook.secret ELSE env_value

\* json.dumps(payload, separators=(",", ":")).encode("utf-8"): the bytes of
\* the body, as the sequence of the values in the order of the keys event,
\* backend_bot_id, sent_at, dedupe_key.
Body(nudge, sent_at) ==
    <<"messages_available", nudge.backend_bot_id, ToString(sent_at)>>
    \o <<ToString(nudge.last_dedupe_key[2])>>

\* hmac.new(secret.encode("utf-8"), digestmod=sha256)
HmacNew(secret) == [key |-> secret, data |-> <<>>]

\* mac.update(bytes)
HmacUpdate(mac, bytes) == [mac EXCEPT !.data = @ \o bytes]

\* mac.hexdigest(): the lowercase hex of HMAC-SHA256(key, data), a value
\* that differs with the key and with the data.
Hexdigest(mac) == <<"hmac-sha256-hex", mac.key, mac.data>>

\* The signature computed over the body alone.
ComputeWebhookSignature_BodyOnly(secret, timestamp, body) ==
    Hexdigest(HmacUpdate(HmacNew(secret), body))

\* compute_webhook_signature(secret, timestamp, body)
ComputeWebhookSignature(secret, timestamp, body) ==
    Hexdigest(
        HmacUpdate(
            HmacUpdate(
                HmacUpdate(HmacNew(secret), <<timestamp>>),
                <<".">>),
            body))

\* self._client.post(webhook.url, content=body, headers=headers): the
\* request, with timestamp = str(int(time.time())).
WebhookPost(nudge, webhook, secret) ==
    LET body == Body(nudge, now)
        timestamp == ToString(now)
    IN [url |-> webhook.url,
        content |-> body,
        headers |->
            [ContentType |-> "application/json",
             XRelayTimestamp |-> timestamp,
             XRelaySignature |->
                 ComputeWebhookSignature(secret, timestamp, body)]]

\* _deliver_one comes to its client.post: the backend has a webhook and
\* the secret resolves.
Posts(nudge, outcome) ==
    /\ nudge.backend_bot_id \in DOMAIN backend_webhooks
    /\ SecretResolves(backend_webhooks[nudge.backend_bot_id],
                      outcome.env_value)

\* The last request sent once _deliver_one(nudge) is over.
Posted(nudge, outcome) ==
    IF Posts(nudge, outcome)
    THEN WebhookPost(nudge, backend_webhooks[nudge.backend_bot_id],
                     ResolvedSecret(backend_webhooks[nudge.backend_bot_id],
                                    outcome.env_value))
    ELSE request

\* _deliver_one taking every status that is not 2xx for retryable.
DeliverOne_RetryAll(nudge, outcome) ==
    IF nudge.backend_bot_id \notin DOMAIN backend_webhooks
    THEN DeleteNudge(nudge.id)
    ELSE LET webhook == backend_webhooks[nudge.backend_bot_id] IN
    IF ~SecretResolves(webhook, outcome.env_value)
    THEN MarkFailed(nudge.id, SecretError("ConfigError"))
    ELSE IF outcome.request_error # NULL
    THEN ScheduleRetry(nudge, webhook, RequestError(outcome.request_error))
    ELSE IF 200 <= outcome.status_code /\ outcome.status_code < 300
    THEN DeleteNudge(nudge.id)
    ELSE ScheduleRetry(nudge, webhook, HttpStatusError(outcome.status_code))

\* _deliver_one with 200 as the only status taken for a success.
DeliverOne_Only200(nudge, outcome) ==
    IF nudge.backend_bot_id \notin DOMAIN backend_webhooks
    THEN DeleteNudge(nudge.id)
    ELSE LET webhook == backend_webhooks[nudge.backend_bot_id] IN
    IF ~SecretResolves(webhook, outcome.env_value)
    THEN MarkFailed(nudge.id, SecretError("ConfigError"))
    ELSE IF outcome.request_error # NULL
    THEN ScheduleRetry(nudge, webhook, RequestError(outcome.request_error))
    ELSE IF outcome.status_code = 200
    THEN DeleteNudge(nudge.id)
    ELSE IF outcome.status_code = 429 \/ outcome.status_code >= 500
    THEN ScheduleRetry(nudge, webhook, HttpStatusError(outcome.status_code))
    ELSE MarkFailed(nudge.id, HttpStatusError(outcome.status_code))

\* _deliver_one(nudge) meeting outcome: what it leaves in webhook_nudges.
DeliverOne(nudge, outcome) ==
    IF nudge.backend_bot_id \notin DOMAIN backend_webhooks
    THEN DeleteNudge(nudge.id)
    ELSE LET webhook == backend_webhooks[nudge.backend_bot_id] IN
    IF ~SecretResolves(webhook, outcome.env_value)
    THEN MarkFailed(nudge.id, SecretError("ConfigError"))
    ELSE IF outcome.request_error # NULL
    THEN ScheduleRetry(nudge, webhook, RequestError(outcome.request_error))
    ELSE IF 200 <= outcome.status_code /\ outcome.status_code < 300
    THEN DeleteNudge(nudge.id)
    ELSE IF outcome.status_code = 429 \/ outcome.status_code >= 500
    THEN ScheduleRetry(nudge, webhook, HttpStatusError(outcome.status_code))
    ELSE MarkFailed(nudge.id, HttpStatusError(outcome.status_code))

\* One turn of the loop of process_once.
Deliver ==
    /\ task = "running"
    /\ claimed # <<>>
    /\ ThreadFree
    /\ \E outcome \in Outcomes :
          /\ nudges' = DeliverOne(Head(claimed), outcome)
          /\ request' = Posted(Head(claimed), outcome)
    /\ claimed' = Tail(claimed)
    /\ UNCHANGED <<dialect, keys, webhook_debounce_seconds, messages,
                   deliveries, sessions, now, next_uuid, inserted, enqueuing,
                   response, config, routing, task, backend_webhooks, reaper_task>>

\* A turn of the loop of process_once in which _deliver_one raises: the
\* worker thread that writes the outcome (_delete_nudge_sync,
\* _mark_failed_sync or _reschedule_nudge_sync) fails on the store and
\* commits nothing, after the POST if one was sent.  No handler of
\* _deliver_one covers these calls; the exception leaves the for loop of
\* process_once, _run logs it and goes on to its next pass, and the nudges
\* of the batch that were not yet visited are dropped with the list.
DeliverRaises ==
    /\ task = "running"
    /\ claimed # <<>>
    /\ ThreadFree
    /\ \E outcome \in Outcomes :
          request' = Posted(Head(claimed), outcome)
    /\ claimed' = <<>>
    /\ UNCHANGED <<dialect, keys, webhook_debounce_seconds, messages,
                   deliveries, nudges, sessions, now, next_uuid, inserted,
                   enqueuing, response, config, routing, task,
                   backend_webhooks, reaper_task>>

\* len(claimed), what process_once returns for the batch it claimed.
ProcessOnceReturn(batch) == Len(batch)

\* _schedule_webhook_nudge_sync as one transaction: the row it finds is
\* the row it writes.
ScheduleWebhookNudge(call) ==
    \E s \in ScheduleSession(call) :
        IF s.loaded = NoNudge
        THEN /\ next_uuid <= MaxUuid
             /\ next_uuid' = next_uuid + 1
             /\ nudges' = nudges \cup
                    {[id |-> next_uuid,
                      backend_bot_id |-> s.backend_bot_id,
                      last_dedupe_key |-> s.dedupe_key,
                      state |-> PENDING,
                      attempts |-> 0,
                      next_attempt_at |-> s.next_attempt_at,
                      last_error |-> NULL]}
        ELSE /\ UNCHANGED next_uuid
             /\ nudges' =
                  {IF r.id = s.loaded.id
                   THEN Flush(r, s.loaded, ScheduleAssigned(s, s.loaded))
                   ELSE r : r \in nudges}

\* enqueue_message scheduling the nudge whether or not the message was
\* inserted.
EnqueueMessage_Always(backend_bot_id, payload) ==
    LET dedupe_key == DedupeKey(payload.discord_bot_id,
                                payload.discord_message_id) IN
    /\ ThreadFree
    /\ EnqueueSync(backend_bot_id, payload, dedupe_key)
    /\ IF backend_bot_id \in DOMAIN webhook_debounce_seconds
       THEN ScheduleWebhookNudge(
                [backend_bot_id |-> backend_bot_id,
                 dedupe_key |-> dedupe_key,
                 debounce_seconds |->
                     webhook_debounce_seconds[backend_bot_id]])
       ELSE UNCHANGED <<nudges, next_uuid>>
    /\ UNCHANGED <<dialect, keys, webhook_debounce_seconds, sessions, now,
                   enqueuing, claimed, response, config, routing, task,
                   backend_webhooks, request, reaper_task>>

\* QueueService.enqueue_message run to its end before anything else runs:
\* the insert and, if the message was inserted and the backend has a
\* webhook debounce, the scheduling of the nudge.
EnqueueMessage(backend_bot_id, payload) ==
    LET dedupe_key == DedupeKey(payload.discord_bot_id,
                                payload.discord_message_id) IN
    /\ ThreadFree
    /\ EnqueueSync(backend_bot_id, payload, dedupe_key)
    /\ IF /\ ~Duplicate(payload.discord_bot_id,
                        payload.discord_message_id, dedupe_key)
          /\ backend_bot_id \in DOMAIN webhook_debounce_seconds
       THEN ScheduleWebhookNudge(
                [backend_bot_id |-> backend_bot_id,
                 dedupe_key |-> dedupe_key,
                 debounce_seconds |->
                     webhook_debounce_seconds[backend_bot_id]])
       ELSE UNCHANGED <<nudges, next_uuid>>
    /\ UNCHANGED <<dialect, keys, webhook_debounce_seconds, sessions, now,
                   enqueuing, claimed, response, config, routing, task,
                   backend_webhooks, request, reaper_task>>

EnqueueMessages ==
    \E b \in keys, bot \in DiscordBots, m \in MessageIds :
        EnqueueMessage(b, Payload(bot, m))

\* WebhookDispatcher.stop: self._task.cancel() raises CancelledError in
\* the task at the await it is suspended in, and neither process_once nor
\* _run catches it.  Between two passes nothing is lost.  In _deliver_one
\* the cancelled await is the POST, and nothing is written for the nudge,
\* or it is the worker thread that writes the outcome, which runs to its
\* end; the nudges still waiting in the claimed batch are dropped with the
\* task.
Stop ==
    /\ task = "running"
    /\ task' = NULL
    /\ claimed' = <<>>
    /\ \/ UNCHANGED <<nudges, request>>
       \/ /\ claimed # <<>>
          /\ \E outcome \in Outcomes :
                /\ request' = Posted(Head(claimed), outcome)
                /\ nudges' \in {nudges, DeliverOne(Head(claimed), outcome)}
    /\ UNCHANGED <<dialect, keys, webhook_debounce_seconds, messages,
                   deliveries, sessions, now, next_uuid, inserted, enqueuing,
                   response, config, routing, backend_webhooks, reaper_task>>

\* Dispatcher workers on one store: each runs process_once, and its
\* _claim_due_nudges_sync is a SELECT and, later, a commit.
Workers == {1, 2}

\* The worker has no pass under way.
Idle(worker) == \A s \in sessions : s.worker # worker

\* _claim_due_nudges_sync after its SELECT: the rows it loaded, in order.
ClaimSessions(worker) ==
    {[op |-> "claim", worker |-> worker, rows |-> q, now |-> now] :
        q \in UNION {DueLimit(limit) : limit \in ClaimLimits}}

\* for nudge in claimed: the batch a worker is delivering.
Pass(worker, batch) == [op |-> "pass", worker |-> worker, claimed |-> batch]

ClaimSelect ==
    \E worker \in Workers : \E s \in ClaimSessions(worker) :
        /\ Idle(worker)
        /\ Due(now) # {}
        /\ ThreadFree
        /\ sessions' = sessions \cup {s}
        /\ UNCHANGED <<dialect, keys, webhook_debounce_seconds, messages,
                       deliveries, nudges, now, next_uuid, inserted, enqueuing,
                       claimed, response, config, routing, task,
                       backend_webhooks, request, reaper_task>>

\* A loaded row is gone at the commit: its UPDATE matches no row.
ClaimStale(s) ==
    \E i \in 1..Len(s.rows) : \A r \in nudges : r.id # s.rows[i].id

\* The row r after the flush of the claim session s: state = SENDING is
\* written on every row the session loaded, by primary key.
ClaimFlush(s, r) ==
    IF \E i \in 1..Len(s.rows) : s.rows[i].id = r.id
    THEN LET loaded == CHOOSE l \in Range(s.rows) : l.id = r.id
         IN Flush(r, loaded, [state |-> SENDING])
    ELSE r

\* session.commit() of _claim_due_nudges_sync and the return of the
\* ClaimedNudges built from the loaded rows; a stale UPDATE raises, the
\* session is closed without a commit and the pass ends with the exception.
ClaimCommit ==
    \E s \in sessions :
        /\ s.op = "claim"
        /\ IF ClaimStale(s)
           THEN /\ sessions' = sessions \ {s}
                /\ UNCHANGED nudges
           ELSE /\ nudges' = {ClaimFlush(s, r) : r \in nudges}
                /\ sessions' = (sessions \ {s}) \cup
                      {Pass(s.worker,
                            [i \in 1..Len(s.rows) |-> ClaimedNudge(s.rows[i])])}
        /\ UNCHANGED <<dialect, keys, webhook_debounce_seconds, messages,
                       deliveries, now, next_uuid, inserted, enqueuing,
                       claimed, response, config, routing, task,
                       backend_webhooks, request, reaper_task>>

\* One turn of the loop of process_once in a worker.
DeliverPass ==
    \E s \in sessions : \E outcome \in Outcomes :
        /\ s.op = "pass"
        /\ nudges' = DeliverOne(Head(s.claimed), outcome)
        /\ request' = Posted(Head(s.claimed), outcome)
        /\ sessions' = (sessions \ {s}) \cup
              (IF Len(s.claimed) = 1 THEN {}
               ELSE {Pass(s.worker, Tail(s.claimed))})
        /\ UNCHANGED <<dialect, keys, webhook_debounce_seconds, messages,
                       deliveries, now, next_uuid, inserted, enqueuing,
                       claimed, response, config, routing, task,
                       backend_webhooks, reaper_task>>

----------------------------------------------------------------------------
\* The API layer (relay_server/main.py).  A request is its Authorization
\* header and the values of its query or body; the framework resolves the
\* handler's dependencies (get_backend_identity) before it validates the
\* query and the body against the schema, and calls the handler only with
\* both in order; a request that get_backend_identity refuses is answered
\* whatever its query and body are.

\* BackendBotConfig.resolved_api_key() of every configured backend.
ApiKeys == [b \in Backends |-> "key-" \o b]

\* An Authorization header: its scheme and what follows the first space.
\* A request without the header has an empty one.
NoAuthorization == [scheme |-> "", credentials |-> ""]

Authorizations ==
    {NoAuthorization} \cup
    [scheme : {"Bearer"}, credentials : {"key-alpha", "key-beta", "key-nobody"}]
    \cup [scheme : {"bearer", "Basic"}, credentials : {"key-alpha"}]

\* str.lower() on the schemes that occur.
Lower(str) ==
    CASE str = "Bearer" -> "bearer"
      [] str = "Basic" -> "basic"
      [] OTHER -> str

\* A lookup among the keys of all configured backends, enabled or not.
Authenticate_AnyConfigured(api_key) ==
    IF \E b \in Backends : ApiKeys[b] = api_key
    THEN CHOOSE b \in Backends : ApiKeys[b] = api_key
    ELSE NULL

\* AuthService.authenticate: self._keys.get(api_key), where _keys holds the
\* enabled backends only.
Authenticate(api_key) ==
    IF \E b \in keys : ApiKeys[b] = api_key
    THEN CHOOSE b \in keys : ApiKeys[b] = api_key
    ELSE NULL

\* get_backend_identity: the backend of the request, or NULL where it
\* raises HTTPException(401, "Unauthorized").
GetBackendIdentity(authorization) ==
    IF Lower(authorization.scheme) # "bearer"
    THEN NULL
    ELSE Authenticate(authorization.credentials)

\* What a request leaves alone whatever its answer.
Config ==
    <<dialect, keys, webhook_debounce_seconds, now, sessions, config,
      routing, task,
      backend_webhooks, request, reaper_task>>

\* A request answered without a call of the queue.
Answer(status_code) ==
    /\ response' = status_code
    /\ UNCHANGED <<Config, messages, deliveries, nudges, next_uuid, inserted,
                   enqueuing, claimed>>

\* @app.get("/v1/health"): no dependency on get_backend_identity.
Health(authorization) == Answer(200)

\* limit: Query(gt=0, le=100), and LeaseMessagesRequest.limit
ValidLimit(limit) == limit > 0 /\ limit <= 100

\* @app.get("/v1/messages/pending")
GetPendingMessages(authorization) ==
    LET backend == GetBackendIdentity(authorization) IN
    IF backend = NULL THEN Answer(401)
    ELSE \E limit \in {0} \cup Limits :
            IF ~ValidLimit(limit) THEN Answer(422)
            ELSE \E s \in FetchSessions(backend, limit) :
                    /\ Run(s)
                    /\ response' = 200
                    /\ UNCHANGED <<Config, messages, nudges, next_uuid,
                                   inserted, enqueuing, claimed>>

\* @app.post("/v1/messages/send"): the payload's discord_bot_id and
\* content, and whether DiscordManager.send_text finds its target.
SendMessage(authorization) ==
    LET backend == GetBackendIdentity(authorization) IN
    IF backend = NULL THEN Answer(401)
    ELSE \E discord_bot_id \in DiscordBots \cup {"discord_x"},
            content \in {"", "hi"}, sendable \in BOOLEAN :
            IF Len(content) < 1 THEN Answer(422)
            ELSE IF discord_bot_id \notin DiscordBots THEN Answer(404)
            ELSE IF ~sendable THEN Answer(400)
            ELSE Answer(200)

\* @app.post("/v1/messages/lease")
LeaseMessages(authorization) ==
    LET backend == GetBackendIdentity(authorization) IN
    IF backend = NULL THEN Answer(401)
    ELSE \E limit \in {0} \cup Limits, lease_seconds \in LeaseSeconds :
            IF ~ValidLimit(limit) THEN Answer(422)
            ELSE \E s \in LeaseSessions(backend, limit, lease_seconds) :
                    /\ DrawLeaseId(s)
                    /\ CanLock(s)
                    /\ Run(s)
                    /\ response' = 200
                    /\ UNCHANGED <<Config, messages, nudges, inserted,
                                   enqueuing, claimed>>

\* AckRequest and NackRequest: delivery_ids has min_length=1; the ids and
\* the lease_id are any strings.
Named == SUBSET DeliveryIds
Presented == 1..MaxUuid

\* @app.post("/v1/messages/ack")
AcknowledgeMessages(authorization) ==
    LET backend == GetBackendIdentity(authorization) IN
    IF backend = NULL THEN Answer(401)
    ELSE \E delivery_ids \in Named, lease_id \in Presented :
            IF Cardinality(delivery_ids) < 1 THEN Answer(422)
            ELSE /\ Run(AckSession(backend, delivery_ids, lease_id))
                 /\ response' = 200
                 /\ UNCHANGED <<Config, messages, nudges, next_uuid,
                                inserted, enqueuing, claimed>>

\* @app.post("/v1/messages/nack")
NegativeAcknowledgeMessages(authorization) ==
    LET backend == GetBackendIdentity(authorization) IN
    IF backend = NULL THEN Answer(401)
    ELSE \E delivery_ids \in Named, lease_id \in Presented,
            reason \in Reasons :
            IF Cardinality(delivery_ids) < 1 THEN Answer(422)
            ELSE /\ Run(NackSession(backend, delivery_ids, lease_id, reason))
                 /\ response' = 200
                 /\ UNCHANGED <<Config, messages, nudges, next_uuid,
                                inserted, enqueuing, claimed>>

----------------------------------------------------------------------------
\* Every operation of the queue, each call run as one transaction.
Next ==
    \/ Tick
    \/ Enqueue
    \/ Fetch
    \/ Lease
    \/ Ack
    \/ Nack
    \/ Reap

Spec == Init /\ [][Next]_vars

----------------------------------------------------------------------------
\* Overlapping requests: the API serves requests concurrently and runs
\* each queue method in its own worker thread, and the reaper runs beside
\* them.  One backend, either engine.
RaceInit ==
    /\ dialect \in Dialects
    /\ keys = {"alpha"}
    /\ webhook_debounce_seconds = [b \in {} |-> 0]
    /\ InitTables
    /\ Unrouted
    /\ task = NULL
    /\ backend_webhooks = EmptyDict

RaceNext ==
    \/ Tick
    \/ Enqueue
    \/ FetchSelect
    \/ FetchCommit
    \/ LeaseSelect
    \/ LeaseCommit
    \/ Ack
    \/ ReapSelect
    \/ ReapCommit

RaceSpec == RaceInit /\ [][RaceNext]_vars

----------------------------------------------------------------------------
\* Ingest with a webhook configured for backend alpha: the enqueues, the
\* nudge scheduling they start in worker threads, and the dispatcher.
NudgeInit ==
    /\ dialect = "sqlite"
    /\ keys = Backends
    /\ webhook_debounce_seconds = [b \in DOMAIN BackendWebhooks |-> 1]
    /\ InitTables
    /\ Unrouted
    /\ task = "running"
    /\ backend_webhooks = BackendWebhooks

NudgeNext ==
    \/ Tick
    \/ Enqueue
    \/ ScheduleSelect
    \/ ScheduleCommit
    \/ Claim
    \/ Deliver

NudgeSpec == NudgeInit /\ [][NudgeNext]_vars

----------------------------------------------------------------------------
\* The relay behind its API: backend alpha is enabled and has no webhook,
\* backend beta is configured and disabled.  Requests come with any
\* Authorization header, in so short a time that the clock does not move.
ApiInit ==
    /\ dialect = "sqlite"
    /\ keys = {"alpha"}
    /\ webhook_debounce_seconds = EmptyDict
    /\ InitTables
    /\ Unrouted
    /\ task = NULL
    /\ backend_webhooks = EmptyDict

ApiNext ==
    \/ Enqueue
    \/ \E authorization \in Authorizations : Health(authorization)
    \/ \E authorization \in Authorizations : GetPendingMessages(authorization)
    \/ \E authorization \in Authorizations : SendMessage(authorization)
    \/ \E authorization \in Authorizations : LeaseMessages(authorization)
    \/ \E authorization \in Authorizations : AcknowledgeMessages(authorization)
    \/ \E authorization \in Authorizations :
            NegativeAcknowledgeMessages(authorization)

ApiSpec == ApiInit /\ [][ApiNext]_vars

----------------------------------------------------------------------------
\* The outbox with every call run to its end: enqueues that schedule their
\* nudge, the passes of the dispatcher, and its stop.
OutboxNext ==
    \/ Tick
    \/ EnqueueMessages
    \/ Claim
    \/ Deliver
    \/ Stop

OutboxSpec == NudgeInit /\ [][OutboxNext]_vars

----------------------------------------------------------------------------
\* Two dispatcher workers on one store, beside the enqueues.
WorkersNext ==
    \/ Tick
    \/ EnqueueMessages
    \/ ClaimSelect
    \/ ClaimCommit
    \/ DeliverPass

WorkersSpec == NudgeInit /\ [][WorkersNext]_vars

----------------------------------------------------------------------------
\* One dispatcher over two backends with a webhook each: alpha with its
\* secret in the configuration, a debounce and two backoff entries, beta
\* with its secret in the environment, no debounce and one backoff entry.
DispatchWebhooks ==
    [b \in Backends |->
        IF b = "alpha"
        THEN [url |-> "https://alpha.example/hook",
              secret |-> "s3cret", secret_env |-> NULL,
              max_retries |-> 2, retry_backoff_seconds |-> <<1, 2>>]
        ELSE [url |-> "https://beta.example/hook",
              secret |-> NULL, secret_env |-> "RELAY_SECRET",
              max_retries |-> 2, retry_backoff_seconds |-> <<1>>]]

DispatchInit ==
    /\ dialect = "sqlite"
    /\ keys = Backends
    /\ webhook_debounce_seconds =
          [b \in Backends |-> IF b = "alpha" THEN 1 ELSE 0]
    /\ InitTables
    /\ Unrouted
    /\ task = "running"
    /\ backend_webhooks = DispatchWebhooks

DispatchNext ==
    \/ Tick
    \/ EnqueueMessages
    \/ Claim
    \/ Deliver

DispatchSpec == DispatchInit /\ [][DispatchNext]_vars

----------------------------------------------------------------------------
\* The dispatcher of DispatchSpec on a store that can fail.  _run keeps
\* making passes while it is not stopped: a pass that can claim is made
\* and the clock moves on (weak fairness), and the errors of the store do
\* not last for ever, so that of the turns of the loop that keep being
\* possible some complete (strong fairness).
PassNext ==
    \/ Tick
    \/ EnqueueMessages
    \/ Claim
    \/ Deliver
    \/ DeliverRaises

PassSpec ==
    /\ DispatchInit
    /\ [][PassNext]_vars
    /\ WF_vars(Tick)
    /\ WF_vars(Claim)
    /\ SF_vars(Deliver)

----------------------------------------------------------------------------
\* Ingest through the router.

\* The messages the gateway delivers to a client of discord_a.
DiscordMessages ==
    [id : MessageIds, author_bot : BOOLEAN, author_id : {"1", "2"},
     is_dm : BOOLEAN, channel_id : {"1", "2"}, guild_id : {NULL, "1"}]

\* RelayDiscordClient.on_message of the client of discord bot bot_id.
OnMessage(bot_id, message) ==
    LET ctx == [discord_bot_id |-> bot_id,
                author_id |-> message.author_id,
                channel_id |-> message.channel_id,
                guild_id |-> message.guild_id,
                is_dm |-> message.is_dm]
        backend_id == ResolveBackend(ctx)
    IN /\ routing.error = NULL
       /\ IF message.author_bot THEN UNCHANGED vars
          ELSE IF /\ ~message.is_dm
                  /\ message.channel_id \notin config.channel_allowlist
          THEN UNCHANGED vars
          ELSE IF ~Truthy(backend_id) THEN UNCHANGED vars
          ELSE EnqueueCall(backend_id, bot_id, message.id)

\* Any of the configurations, and the table built from it at startup.
RouteInit ==
    /\ dialect = "sqlite"
    /\ keys = Backends
    /\ webhook_debounce_seconds = [b \in {} |-> 0]
    /\ InitTables
    /\ config \in AppConfigs
    /\ routing = RoutingTable(config)
    /\ task = NULL
    /\ backend_webhooks = EmptyDict

RouteNext ==
    \E bot_id \in DiscordBots, message \in DiscordMessages :
        OnMessage(bot_id, message)

RouteSpec == RouteInit /\ [][RouteNext]_vars

----------------------------------------------------------------------------
\* The reaper task beside the queue calls of one backend, each call one
\* transaction.  The
\* event loop wakes the sleeping task (weak fairness), and of the passes it
\* keeps making, some succeed: errors of the store do not last for ever
\* (strong fairness of the pass that returns).  Nack is left out: what it
\* does to a LEASED delivery is what the reaper does, but for last_error.
ReaperNext ==
    \/ Tick
    \/ Enqueue
    \/ Lease
    \/ Ack
    \/ ReaperPass
    \/ ReaperRaises
    \/ ReaperWake

ReaperInit ==
    /\ dialect = "sqlite"
    /\ keys = {"alpha"}
    /\ webhook_debounce_seconds = EmptyDict
    /\ InitTables
    /\ Unrouted
    /\ task = NULL
    /\ backend_webhooks = EmptyDict

ReaperSpec ==
    /\ ReaperInit
    /\ [][ReaperNext]_vars
    /\ WF_vars(ReaperWake)
    /\ SF_vars(ReaperPass)

----------------------------------------------------------------------------
\* Reaper passes, each one transaction, on a store that holds nudges:
\* backend alpha has a webhook, deliveries are leased and left to expire.
SweepNext ==
    \/ Tick
    \/ EnqueueMessages
    \/ Lease
    \/ Reap

\* The service starts on the store an earlier run left: one message for
\* alpha with its delivery, and alpha's nudge, whose id that run drew.
SweepInit ==
    /\ dialect = "sqlite"
    /\ keys = Backends
    /\ webhook_debounce_seconds = [b \in DOMAIN BackendWebhooks |-> 1]
    /\ backend_webhooks = BackendWebhooks
    /\ Unrouted
    /\ task = NULL
    /\ messages = <<[dedupe_key |-> DedupeKey("discord_a", 1),
                     discord_bot_id |-> "discord_a",
                     discord_message_id |-> 1,
                     channel_id |-> "1",
                     timestamp |-> 0,
                     created_at |-> 0]>>
    /\ deliveries = <<[discord_message_id |-> 1,
                       backend_bot_id |-> "alpha",
                       state |-> PENDING,
                       delivered_at |-> None,
                       lease_id |-> None,
                       lease_expires_at |-> None,
                       attempts |-> 0,
                       last_error |-> NULL,
                       created_at |-> 0]>>
    /\ nudges = {[id |-> 0,
                  backend_bot_id |-> "alpha",
                  state |-> PENDING,
                  attempts |-> 0,
                  last_error |-> NULL,
                  next_attempt_at |-> 1,
                  last_dedupe_key |-> DedupeKey("discord_a", 1)]}
    /\ sessions = {}
    /\ now = 0
    /\ next_uuid = 1
    /\ inserted = FALSE
    /\ enqueuing = {}
    /\ request = NoRequest
    /\ reaper_task = "reap"
    /\ claimed = <<>>
    /\ response = None

SweepSpec == SweepInit /\ [][SweepNext]_vars

----------------------------------------------------------------------------
\* A backend that keeps its side of the lease protocol, beside one that
\* does not.  alpha keeps calling Lease and acknowledges what a lease
\* returned before the lease expires; beta holds a lease from before the
\* start, which it gives back with a Nack or leaves to the reaper, and
\* does not come back for its deliveries.  Every call is one transaction.

\* The deliveries a backend holds under a lease_id.
HeldBy(backend_bot_id, lease_id) ==
    {d \in DeliveryIds :
        /\ deliveries[d].backend_bot_id = backend_bot_id
        /\ deliveries[d].state = LEASED
        /\ deliveries[d].lease_id = lease_id}

\* The lease_id of the lease beta holds at the start, drawn by the run
\* that wrote the store.
EarlierLease == 0

\* POST /v1/messages/lease of alpha.
LeaseDiligent ==
    \E s \in UNION {LeaseSessions("alpha", limit, secs) :
                       limit \in Limits, secs \in LeaseSeconds} :
        LeaseRun(s)

\* POST /v1/messages/ack of alpha: the delivery_ids and the lease_id of
\* one lease response.
AckDiligent ==
    \E l \in LeaseIds :
        /\ HeldBy("alpha", l) # {}
        /\ \E s \in {AckSession("alpha", HeldBy("alpha", l), l)} :
              AckRun(s)

\* POST /v1/messages/nack of beta, for the lease it holds.
NackEarlier ==
    /\ HeldBy("beta", EarlierLease) # {}
    /\ \E s \in {NackSession("beta", HeldBy("beta", EarlierLease),
                              EarlierLease, "boom")} :
          NackRun(s)

\* Time passes, but not beyond the expiry of a lease alpha holds: alpha
\* acknowledges before.
TickDiligent ==
    /\ \A d \in DeliveryIds :
          (/\ deliveries[d].backend_bot_id = "alpha"
           /\ deliveries[d].state = LEASED)
             => now < deliveries[d].lease_expires_at
    /\ Tick

DrainNext ==
    \/ TickDiligent
    \/ Enqueue
    \/ LeaseDiligent
    \/ AckDiligent
    \/ NackEarlier
    \/ Reap

\* The service starts on the store an earlier run left: one message for
\* beta, whose delivery beta leased at the end of that run.
DrainInit ==
    /\ dialect = "sqlite"
    /\ keys = Backends
    /\ webhook_debounce_seconds = EmptyDict
    /\ backend_webhooks = EmptyDict
    /\ Unrouted
    /\ task = NULL
    /\ messages = <<[dedupe_key |-> DedupeKey("discord_a", 0),
                     discord_bot_id |-> "discord_a",
                     discord_message_id |-> 0,
                     channel_id |-> "1",
                     timestamp |-> 0,
                     created_at |-> 0]>>
    /\ deliveries = <<[discord_message_id |-> 1,
                       backend_bot_id |-> "beta",
                       state |-> LEASED,
                       delivered_at |-> None,
                       lease_id |-> EarlierLease,
                       lease_expires_at |-> 0,
                       attempts |-> 1,
                       last_error |-> NULL,
                       created_at |-> 0]>>
    /\ nudges = {}
    /\ sessions = {}
    /\ now = 0
    /\ next_uuid = 1
    /\ inserted = FALSE
    /\ enqueuing = {}
    /\ request = NoRequest
    /\ reaper_task = "reap"
    /\ claimed = <<>>
    /\ response = None

\* alpha keeps calling Lease and Ack, and the reaper keeps making its
\* passes (weak fairness of each).
DrainSpec ==
    /\ DrainInit
    /\ [][DrainNext]_vars
    /\ WF_vars(LeaseDiligent)
    /\ WF_vars(AckDiligent)
    /\ WF_vars(Reap)

----------------------------------------------------------------------------
\* Conversation history: messages of any channel and any Discord timestamp
\* are enqueued for the two backends and fetched or leased in whole calls;
\* the clock stands still, so that deliveries are created at the same time
\* and a Lease may load them in either order.
Payloads ==
    [discord_bot_id : DiscordBots,
     discord_message_id : MessageIds,
     channel_id : ChannelIds,
     timestamp : Timestamps]

EnqueuePayloads ==
    \E b \in keys, payload \in Payloads : EnqueueMessage(b, payload)

HistoryNext ==
    \/ EnqueuePayloads
    \/ Fetch
    \/ Lease

HistorySpec == Init /\ [][HistoryNext]_vars

----------------------------------------------------------------------------
\* The properties.

\* C1 (invariant part): no two messages carry the same dedupe_key, and
\* every message has exactly one delivery.
C1_OneMessageOneDelivery ==
    /\ \A i, j \in 1..Len(messages) :
          messages[i].dedupe_key = messages[j].dedupe_key => i = j
    /\ \A i \in 1..Len(messages) :
          Cardinality({d \in DeliveryIds :
                          deliveries[d].discord_message_id = i}) = 1

\* C1 (step part): an enqueue of a key that no message carries inserts one
\* message and one delivery and returns inserted = true; an enqueue of a
\* key that a message carries, for whatever backend, returns inserted =
\* false and leaves both tables as they are.
C1_EnqueueStep ==
    \A b \in keys, bot \in DiscordBots, m \in MessageIds :
        EnqueueCall(b, bot, m) =>
            LET seen == \E i \in 1..Len(messages) :
                            messages[i].dedupe_key = DedupeKey(bot, m)
            IN /\ inserted' = ~seen
               /\ seen => UNCHANGED <<messages, deliveries>>
               /\ ~seen => /\ Len(messages') = Len(messages) + 1
                           /\ Len(deliveries') = Len(deliveries) + 1
                           /\ messages'[Len(messages')].dedupe_key =
                                  DedupeKey(bot, m)
                           /\ deliveries'[Len(deliveries')].backend_bot_id = b

\* C1: enqueuing the same dedupe_key any number of times, for the same or
\* for different backends, between any other operations, yields exactly
\* one message and one delivery; the first enqueue returns inserted = true
\* and each later one inserted = false.
C1_EnqueueDedupe ==
    /\ []C1_OneMessageOneDelivery
    /\ [][(inserted' # inserted \/ messages' # messages) => C1_EnqueueStep]_vars

\* C1 witness: an enqueue of a key already stored was answered with
\* inserted = false and the tables still hold one message, one delivery.
C1_DuplicateAnswered ==
    /\ inserted = FALSE
    /\ Len(messages) = 1
    /\ Len(deliveries) = 1

\* C2: two lease calls of one backend whose transactions overlap (both
\* have selected, neither has committed) return no delivery in common.
C2_DisjointLeases ==
    \A s, o \in sessions :
        (/\ s # o
         /\ s.op = "lease"
         /\ o.op = "lease"
         /\ s.backend_bot_id = o.backend_bot_id)
            => Range(LeaseReturn(s)) \cap Range(LeaseReturn(o)) = {}

\* One step of a delivery's state as the claim C3 allows it.
C3_Allowed ==
    {<<PENDING, LEASED>>, <<LEASED, PENDING>>, <<LEASED, DELIVERED>>}

\* C3: a delivery starts PENDING and its state only ever changes
\* PENDING -> LEASED, LEASED -> PENDING or LEASED -> DELIVERED, so the
\* observed sequence is a prefix of PENDING (-> LEASED -> PENDING)*
\* (-> LEASED -> DELIVERED) and DELIVERED is entered from LEASED only.
C3_StateSequence ==
    [][/\ \A d \in DeliveryIds :
            \/ deliveries'[d].state = deliveries[d].state
            \/ <<deliveries[d].state, deliveries'[d].state>> \in C3_Allowed
       /\ \A d \in (1..Len(deliveries')) \ DeliveryIds :
            deliveries'[d].state = PENDING]_vars

\* C4: a delivery is LEASED if and only if it carries a lease_id and a
\* lease_expires_at; a PENDING or DELIVERED delivery carries neither.
C4_LeasedIffLeaseFields ==
    \A d \in DeliveryIds :
        deliveries[d].state = LEASED
            <=> (/\ deliveries[d].lease_id # None
                 /\ deliveries[d].lease_expires_at # None)

\* C5: a DELIVERED delivery has delivered_at set and stays DELIVERED
\* through every later step, so that no later lease or pending fetch,
\* which select PENDING deliveries only, returns it again.
C5_DeliveredTerminal ==
    /\ [](\A d \in DeliveryIds :
            deliveries[d].state = DELIVERED => deliveries[d].delivered_at # None)
    /\ [][\A d \in DeliveryIds :
            deliveries[d].state = DELIVERED => deliveries'[d].state = DELIVERED]_vars

\* C6: attempts counts the PENDING -> LEASED transitions of a delivery: a
\* new delivery has attempts = 0, a step that takes the delivery from
\* PENDING to LEASED adds exactly 1 and no other step changes attempts.
C6_AttemptsCountLeases ==
    [][/\ \A d \in DeliveryIds :
            deliveries'[d].attempts =
                deliveries[d].attempts +
                    (IF /\ deliveries[d].state = PENDING
                        /\ deliveries'[d].state = LEASED
                     THEN 1 ELSE 0)
       /\ \A d \in (1..Len(deliveries')) \ DeliveryIds :
            deliveries'[d].attempts = 0]_vars

\* C7 for Ack called with (b, ids, l): the deliveries of backend b named
\* in ids that are LEASED under l become DELIVERED with delivered_at = now
\* and nothing else of them changes; every other delivery is unchanged; the
\* count returned is the number of those deliveries.
C7_AckStep ==
    \A b \in keys, ids \in NamedSets, l \in LeaseIds :
        AckRun(AckSession(b, ids, l)) =>
            LET hit == {d \in DeliveryIds :
                          /\ deliveries[d].backend_bot_id = b
                          /\ d \in ids
                          /\ deliveries[d].state = LEASED
                          /\ deliveries[d].lease_id = l}
            IN /\ \A d \in hit :
                     deliveries'[d] = [deliveries[d] EXCEPT
                                          !.state = DELIVERED,
                                          !.delivered_at = now]
               /\ \A d \in DeliveryIds \ hit : deliveries'[d] = deliveries[d]
               /\ AckReturn(AckSession(b, ids, l)) = Cardinality(hit)

\* C7 for Nack called with (b, ids, l, r): the same deliveries become
\* PENDING with the lease fields cleared and last_error = r; every other
\* delivery is unchanged; the count returned is their number.
C7_NackStep ==
    \A b \in keys, ids \in NamedSets, l \in LeaseIds, r \in Reasons :
        NackRun(NackSession(b, ids, l, r)) =>
            LET hit == {d \in DeliveryIds :
                          /\ deliveries[d].backend_bot_id = b
                          /\ d \in ids
                          /\ deliveries[d].state = LEASED
                          /\ deliveries[d].lease_id = l}
            IN /\ \A d \in hit :
                     deliveries'[d] = [deliveries[d] EXCEPT
                                          !.state = PENDING,
                                          !.lease_id = None,
                                          !.lease_expires_at = None,
                                          !.last_error = r]
               /\ \A d \in DeliveryIds \ hit : deliveries'[d] = deliveries[d]
               /\ NackReturn(NackSession(b, ids, l, r)) = Cardinality(hit)

\* C7: Ack and Nack transition exactly the deliveries that match
\* (backend, id named, LEASED, lease_id) and return their number; a
\* delivery named with a wrong lease_id, a wrong backend or a state other
\* than LEASED is left unchanged while the matching ones still succeed.
C7_AckNackExact ==
    [][(deliveries' # deliveries /\ next_uuid' = next_uuid /\ messages' = messages)
          => (C7_AckStep /\ C7_NackStep)]_vars

\* C7 witness: of two deliveries of one backend leased under different
\* lease ids, one has been acknowledged and the other is still LEASED.
C7_PartialAck ==
    \E d, e \in DeliveryIds :
        /\ deliveries[d].backend_bot_id = deliveries[e].backend_bot_id
        /\ deliveries[d].state = DELIVERED
        /\ deliveries[d].lease_id # None
        /\ deliveries[e].state = LEASED
        /\ deliveries[e].lease_id # deliveries[d].lease_id

\* C8: right after a reap at time now no delivery is LEASED with
\* lease_expires_at < now; each delivery that was is PENDING with lease_id
\* and lease_expires_at cleared and last_error = "Lease expired"; the count
\* returned is the number of those deliveries.
C8_ReapPost ==
    [][deliveries' # deliveries /\ ReapRun(ReapSession) =>
        LET reaped == {d \in DeliveryIds :
                          /\ deliveries[d].state = LEASED
                          /\ deliveries[d].lease_expires_at # None
                          /\ deliveries[d].lease_expires_at < now}
        IN /\ \A d \in DeliveryIds :
                 ~(/\ deliveries'[d].state = LEASED
                   /\ deliveries'[d].lease_expires_at < now)
           /\ \A d \in reaped :
                 /\ deliveries'[d].state = PENDING
                 /\ deliveries'[d].lease_id = None
                 /\ deliveries'[d].lease_expires_at = None
                 /\ deliveries'[d].last_error = "Lease expired"
           /\ ReapReturn(ReapSession) = Cardinality(reaped)]_vars

\* C8 witness: a delivery that was leased once is PENDING again with
\* last_error = "Lease expired" and no lease fields.
C8_Reaped ==
    \E d \in DeliveryIds :
        /\ deliveries[d].state = PENDING
        /\ deliveries[d].last_error = "Lease expired"
        /\ deliveries[d].lease_id = None
        /\ deliveries[d].attempts = 1

\* C9: at most one webhook_nudges row exists per backend_bot_id, also
\* while two schedulers of one backend run at once and while a scheduler
\* runs beside the dispatcher's delete.
C9_OneNudgePerBackend ==
    \A r, q \in nudges : r.backend_bot_id = q.backend_bot_id => r = q

\* C9 witness: a scheduler that found no row for its backend has not yet
\* committed, and a row for that backend exists by now.
C9_LateInsert ==
    \E s \in sessions :
        /\ s.op = "schedule"
        /\ s.loaded = NoNudge
        /\ \E r \in nudges : r.backend_bot_id = s.backend_bot_id

\* C10: a lease of (b, limit) returns min(limit, number of PENDING
\* deliveries of b) deliveries, each PENDING and of b, in ascending
\* created_at, and no PENDING delivery of b that it leaves out was created
\* before one that it returns; the returned deliveries are then LEASED.
C10_LeaseOldestFirst ==
    [][next_uuid' # next_uuid =>
       \A b \in keys, limit \in Limits, secs \in LeaseSeconds :
        \A s \in LeaseSessions(b, limit, secs) :
            LeaseRun(s) =>
                LET pending == {d \in DeliveryIds :
                                   /\ deliveries[d].backend_bot_id = b
                                   /\ deliveries[d].state = PENDING}
                    got == LeaseReturn(s)
                IN /\ Len(got) = IF Cardinality(pending) < limit
                                 THEN Cardinality(pending) ELSE limit
                   /\ \A i \in 1..Len(got) :
                         /\ got[i] \in pending
                         /\ deliveries'[got[i]].state = LEASED
                   /\ \A i, j \in 1..Len(got) :
                         i < j =>
                            /\ got[i] # got[j]
                            /\ deliveries[got[i]].created_at
                                  <= deliveries[got[j]].created_at
                   /\ \A d \in pending \ Range(got) :
                         \A i \in 1..Len(got) :
                            deliveries[got[i]].created_at
                               <= deliveries[d].created_at]_vars

\* C10 witness: of two PENDING deliveries of one backend a lease with
\* limit 1 took the older one and left the newer one PENDING.
C10_OlderLeasedFirst ==
    \E d, e \in DeliveryIds :
        /\ deliveries[d].backend_bot_id = deliveries[e].backend_bot_id
        /\ deliveries[d].created_at < deliveries[e].created_at
        /\ deliveries[d].state = LEASED
        /\ deliveries[d].attempts = 1
        /\ deliveries[e].state = PENDING
        /\ deliveries[e].attempts = 0

\* A delivery that a Nack returned to PENDING last: it was leased before
\* and its last_error is not the reaper's.
C11_Nacked(d) ==
    /\ deliveries[d].state = PENDING
    /\ deliveries[d].attempts >= 1
    /\ deliveries[d].last_error # LEASE_EXPIRED

\* C11 for Nack called with (b, ids, l, r): each delivery of b named in ids
\* and LEASED under l is PENDING afterwards, with lease_id and
\* lease_expires_at cleared, last_error = r and attempts as they were.
C11_NackStep ==
    \A b \in keys, ids \in NamedSets, l \in LeaseIds, r \in Reasons :
        NackRun(NackSession(b, ids, l, r)) =>
            \A d \in ids :
                (/\ deliveries[d].backend_bot_id = b
                 /\ deliveries[d].state = LEASED
                 /\ deliveries[d].lease_id = l)
                    => /\ deliveries'[d].state = PENDING
                       /\ deliveries'[d].lease_id = None
                       /\ deliveries'[d].lease_expires_at = None
                       /\ deliveries'[d].last_error = r
                       /\ deliveries'[d].attempts = deliveries[d].attempts

\* The PENDING deliveries of d's backend, other than d, that are as old as
\* d or older: the ones a lease may take before d.
C11_Ahead(d) ==
    {e \in PendingOf(deliveries[d].backend_bot_id) \ {d} :
        deliveries[e].created_at <= deliveries[d].created_at}

\* C11 for a Lease of (b, limit) that follows the Nack: a nacked delivery
\* of b that the lease returns is LEASED again with attempts one higher,
\* and the lease returns it if fewer than limit PENDING deliveries of b
\* are ahead of it.
C11_LeaseAgainStep ==
    \A b \in keys, limit \in Limits, secs \in LeaseSeconds :
        \A s \in LeaseSessions(b, limit, secs) :
            LeaseRun(s) =>
                \A d \in PendingOf(b) :
                    C11_Nacked(d) =>
                        /\ Cardinality(C11_Ahead(d)) < limit
                              => d \in Range(LeaseReturn(s))
                        /\ d \in Range(LeaseReturn(s))
                              => /\ deliveries'[d].state = LEASED
                                 /\ deliveries'[d].attempts =
                                        deliveries[d].attempts + 1

\* C11 (as amended): a Nack with the right backend and lease_id returns the
\* delivery to PENDING with the lease fields cleared, last_error = reason
\* and attempts not decremented; the next Lease of that backend returns it
\* again, with attempts one higher, whenever fewer than limit PENDING
\* deliveries of the backend are as old or older.
C11_NackRoundTrip ==
    [][/\ (deliveries' # deliveries /\ next_uuid' = next_uuid
             /\ messages' = messages) => C11_NackStep
       /\ next_uuid' # next_uuid => C11_LeaseAgainStep]_vars

\* C11 as stated: after the Nack, the next Lease of that backend returns
\* the nacked delivery again, whatever its limit and whatever else is
\* PENDING, with attempts one higher.
C11_NextLeaseReturnsNacked ==
    [][/\ (deliveries' # deliveries /\ next_uuid' = next_uuid
             /\ messages' = messages) => C11_NackStep
       /\ next_uuid' # next_uuid =>
            \A b \in keys, limit \in Limits, secs \in LeaseSeconds :
                \A s \in LeaseSessions(b, limit, secs) :
                    LeaseRun(s) =>
                        \A d \in PendingOf(b) :
                            C11_Nacked(d) =>
                                /\ d \in Range(LeaseReturn(s))
                                /\ deliveries'[d].attempts =
                                       deliveries[d].attempts + 1]_vars

\* C11 witness: a delivery nacked with reason "boom" has been leased again
\* and counts two attempts.
C11_LeasedAgain ==
    \E d \in DeliveryIds :
        /\ deliveries[d].state = LEASED
        /\ deliveries[d].last_error = "boom"
        /\ deliveries[d].attempts = 2

\* min(limit, number of PENDING deliveries of b)
C12_Count(b, limit) ==
    IF Cardinality(PendingOf(b)) < limit
    THEN Cardinality(PendingOf(b)) ELSE limit

\* C12, what a GET /v1/messages/pending of (b, limit) returns in a state:
\* min(limit, #PENDING of b) deliveries, each PENDING and of b, oldest
\* created_at first; none when b has no PENDING delivery.
C12_FetchReturns ==
    \A b \in keys, limit \in Limits :
        \A s \in FetchSessions(b, limit) :
            LET got == FetchReturn(s) IN
            /\ Len(got) = C12_Count(b, limit)
            /\ Range(got) \subseteq PendingOf(b)
            /\ \A i, j \in 1..Len(got) :
                  i < j => /\ got[i] # got[j]
                           /\ deliveries[got[i]].created_at
                                 <= deliveries[got[j]].created_at
            /\ \A d \in PendingOf(b) \ Range(got) :
                  \A i \in 1..Len(got) :
                     deliveries[got[i]].created_at <= deliveries[d].created_at

\* C12, what the GET of (b, limit) does: each returned delivery goes from
\* PENDING to DELIVERED with delivered_at = now and nothing else of it
\* changes, every other delivery is unchanged, and the PENDING deliveries
\* of b that remain are the ones not returned.
C12_FetchStep ==
    \A b \in keys, limit \in Limits :
        \A s \in FetchSessions(b, limit) :
            FetchRun(s) =>
                LET got == Range(FetchReturn(s)) IN
                /\ \A d \in got :
                      deliveries'[d] = [deliveries[d] EXCEPT
                                           !.state = DELIVERED,
                                           !.delivered_at = now]
                /\ \A d \in DeliveryIds \ got : deliveries'[d] = deliveries[d]
                /\ PendingOf(b)' = PendingOf(b) \ got
                /\ limit >= Cardinality(PendingOf(b)) => PendingOf(b)' = {}

\* C12 (as amended): the legacy GET returns up to limit of the backend's
\* PENDING deliveries, oldest first, and moves each returned delivery
\* directly to DELIVERED with delivered_at set; it leaves PENDING exactly
\* the ones it did not return, so that a second GET finds none when the
\* first GET's limit covered all of them, and a GET that finds none
\* returns 0 messages.
C12_LegacyFetch ==
    /\ []C12_FetchReturns
    /\ [][(deliveries' # deliveries /\ next_uuid' = next_uuid
             /\ messages' = messages) => C12_FetchStep]_vars

\* C12 as stated: after a GET of (b, limit) a second GET of b, with no
\* enqueue in between, returns 0 messages: no delivery of b is PENDING.
C12_SecondFetchEmpty ==
    [][(deliveries' # deliveries /\ next_uuid' = next_uuid
          /\ messages' = messages) =>
        \A b \in keys, limit \in Limits :
            \A s \in FetchSessions(b, limit) :
                FetchRun(s) =>
                    /\ \A d \in Range(FetchReturn(s)) :
                          /\ deliveries'[d].state = DELIVERED
                          /\ deliveries'[d].delivered_at # None
                    /\ PendingOf(b)' = {}]_vars

\* C12 witness: of two PENDING deliveries of one backend a GET with limit 1
\* delivered the older one without a lease and left the newer one PENDING.
C12_FetchedOlder ==
    \E d, e \in DeliveryIds :
        /\ deliveries[d].backend_bot_id = deliveries[e].backend_bot_id
        /\ deliveries[d].created_at < deliveries[e].created_at
        /\ deliveries[d].state = DELIVERED
        /\ deliveries[d].delivered_at # None
        /\ deliveries[d].attempts = 0
        /\ deliveries[d].lease_id = None
        /\ deliveries[e].state = PENDING

\* C13 for a Lease of (b, limit, lease_seconds) that returns deliveries:
\* every record carries the call's one lease_id and lease_expires_at =
\* now + lease_seconds, and the delivery row stores the same two values.
C13_LeaseStep ==
    \A b \in keys, limit \in Limits, secs \in LeaseSeconds :
        \A s \in LeaseSessions(b, limit, secs) :
            LeaseRun(s) =>
                LET recs == LeaseRecords(s) IN
                \A i \in 1..Len(recs) :
                    /\ recs[i].lease_id = recs[1].lease_id
                    /\ recs[i].lease_id # None
                    /\ recs[i].lease_expires_at = now + secs
                    /\ deliveries'[recs[i].delivery_id].state = LEASED
                    /\ deliveries'[recs[i].delivery_id].lease_id =
                           recs[i].lease_id
                    /\ deliveries'[recs[i].delivery_id].lease_expires_at =
                           recs[i].lease_expires_at

\* C13 for a Lease of a backend without PENDING delivery: the records and
\* the history are empty and the commit leaves every delivery as it is.
C13_EmptyLease ==
    \A b \in keys, limit \in Limits, secs \in LeaseSeconds :
        PendingOf(b) = {} =>
            /\ LeaseSessions(b, limit, secs) # {}
            /\ \A s \in LeaseSessions(b, limit, secs) :
                  /\ LeaseRecords(s) = <<>>
                  /\ \A n \in HistoryLimits :
                        /\ LeaseHistory(s, TRUE, n) = {<<>>}
                        /\ LeaseHistory(s, FALSE, n) = {<<>>}
                  /\ CommitRows(s) = deliveries

\* C13: all deliveries one Lease returns carry the same lease_id and the
\* same lease_expires_at = now + lease_seconds, and the rows store these
\* values; a Lease that finds no PENDING delivery returns an empty list and
\* an empty history and changes no delivery.
C13_LeaseContract ==
    /\ []C13_EmptyLease
    /\ [][next_uuid' # next_uuid => C13_LeaseStep]_vars

\* C13 witness: one lease took two deliveries, which store the same
\* lease_id and the same lease_expires_at.
C13_TwoUnderOneLease ==
    \E d, e \in DeliveryIds :
        /\ d # e
        /\ deliveries[d].state = LEASED
        /\ deliveries[e].state = LEASED
        /\ deliveries[d].lease_id = deliveries[e].lease_id
        /\ deliveries[d].lease_expires_at = deliveries[e].lease_expires_at
        /\ deliveries[d].lease_expires_at = now + 1

\* C14, the requests that carry no bearer key of an enabled backend.
C14_Unauthenticated ==
    {a \in Authorizations :
        ~(/\ a.scheme \in {"Bearer", "bearer"}
          /\ \E b \in keys : a.credentials = ApiKeys[b])}

\* C14: a request to /v1/messages/pending, /lease, /ack, /nack or /send
\* without a bearer key of an enabled backend is answered 401, whatever
\* its query or body, and leaves messages, deliveries and nudges as they
\* are; /v1/health is answered 200 without a key.
C14_UnauthorizedIs401 ==
    [][\A a \in C14_Unauthenticated :
        /\ (\/ GetPendingMessages(a)
            \/ SendMessage(a)
            \/ LeaseMessages(a)
            \/ AcknowledgeMessages(a)
            \/ NegativeAcknowledgeMessages(a))
               => /\ response' = 401
                  /\ UNCHANGED <<messages, deliveries, nudges>>
        /\ Health(a) => response' = 200]_vars

\* C14 witness: with a delivery PENDING and another LEASED, the last
\* request was refused with 401.
C14_Refused ==
    /\ response = 401
    /\ \E d \in DeliveryIds : deliveries[d].state = PENDING
    /\ \E d \in DeliveryIds : deliveries[d].state = LEASED

\* C15, the key a tag looks up in the context.
C15_Key(scope, ctx) ==
    CASE scope = DM_USER -> ctx.author_id
      [] scope = CHANNEL -> ctx.channel_id
      [] scope = GUILD -> ctx.guild_id
      [] OTHER -> ctx.discord_bot_id

\* C15, when a tag matches the context: DM_USER iff is_dm, CHANNEL iff not
\* is_dm and channel_id is set, GUILD iff guild_id is set, DEFAULT always.
C15_Matches(scope, ctx) ==
    \/ scope = DM_USER /\ ctx.is_dm
    \/ scope = CHANNEL /\ ~ctx.is_dm /\ ctx.channel_id # NULL
    \/ scope = GUILD /\ ctx.guild_id # NULL
    \/ scope = "default"

\* C15, the table entry of a tag for the context, read off the
\* configuration: the backend of the route of that chat bot, scope type
\* and key, or of the defaults entry of the chat bot; NULL without one.
C15_Entry(scope, ctx) ==
    IF scope = "default"
    THEN IF ctx.discord_bot_id \in DOMAIN config.defaults
         THEN config.defaults[ctx.discord_bot_id] ELSE NULL
    ELSE LET found == {i \in 1..Len(config.routes) :
                          /\ config.routes[i].discord_bot_id =
                                 ctx.discord_bot_id
                          /\ config.routes[i].scope_type = scope
                          /\ config.routes[i].scope_id = C15_Key(scope, ctx)}
         IN IF found = {} THEN NULL
            ELSE config.routes[CHOOSE i \in found : TRUE].backend_bot_id

\* C15: Resolve(ctx) returns the backend of the first tag in precedence
\* order that matches the context and has a table entry, and none if no
\* tag does; so a DM is never resolved through a CHANNEL route.
C15_ResolveFirstMatch ==
    routing.error = NULL =>
        \A ctx \in MessageContexts :
            LET hits == {i \in 1..Len(config.precedence) :
                            /\ C15_Matches(config.precedence[i], ctx)
                            /\ C15_Entry(config.precedence[i], ctx) # NULL}
                first == CHOOSE i \in hits : \A j \in hits : i <= j
            IN ResolveBackend(ctx) =
                  IF hits = {} THEN NULL
                  ELSE C15_Entry(config.precedence[first], ctx)

\* C15 witness: with CHANNEL before DM_USER in the precedence, a channel
\* route for channel 1 and a DM route for user 1 to another backend, a DM
\* of user 1 in channel 1 has been routed to the backend of the DM route.
C15_DmPastChannelRoute ==
    /\ routing.error = NULL
    /\ config.precedence = <<CHANNEL, DM_USER, GUILD>>
    /\ \E ctx \in MessageContexts :
          /\ ctx.is_dm
          /\ ctx.channel_id = "1"
          /\ ctx.author_id = "1"
          /\ Truthy(Get(GetDict(routing.channel_routes, ctx.discord_bot_id),
                        ctx.channel_id))
          /\ Truthy(ResolveBackend(ctx))
          /\ ResolveBackend(ctx) #
                Get(GetDict(routing.channel_routes, ctx.discord_bot_id),
                    ctx.channel_id)
          /\ \E d \in DeliveryIds :
                deliveries[d].backend_bot_id = ResolveBackend(ctx)

\* C16, a configuration that references an ID that is not configured: a
\* route's chat bot or backend, a defaults entry's chat bot or backend.
C16_ReferencesUnknownId ==
    \/ \E i \in 1..Len(config.routes) :
          \/ config.routes[i].discord_bot_id \notin config.discord_bots
          \/ config.routes[i].backend_bot_id \notin config.backend_bots
    \/ \E bot_id \in DOMAIN config.defaults :
          \/ bot_id \notin config.discord_bots
          \/ config.defaults[bot_id] \notin config.backend_bots

\* C16: the construction of the router fails with ConfigError whenever the
\* configuration references an unknown ID, so every backend that Resolve
\* returns, and every backend a delivery is routed to, is configured.
C16_UnknownIdsRefused ==
    /\ C16_ReferencesUnknownId => routing.error = "ConfigError"
    /\ routing.error = NULL =>
          \A ctx \in MessageContexts :
              ResolveBackend(ctx) \in config.backend_bots \cup {NULL}
    /\ \A d \in DeliveryIds :
          deliveries[d].backend_bot_id \in config.backend_bots

\* C17 for an enqueue of (b, bot, m) that inserts its message, b having a
\* webhook: afterwards b has exactly one nudge, PENDING, with
\* last_dedupe_key the key of this message and next_attempt_at = now +
\* debounce; a nudge that b had before is that same row, and the value a
\* scheduling had set on it is not later than the new one.
C17_EnqueueStep ==
    \A b \in DOMAIN webhook_debounce_seconds, bot \in DiscordBots,
       m \in MessageIds :
        (EnqueueMessage(b, Payload(bot, m)) /\ inserted') =>
            LET mine == {r \in nudges' : r.backend_bot_id = b} IN
            /\ Cardinality(mine) = 1
            /\ \A r \in mine :
                  /\ r.last_dedupe_key = DedupeKey(bot, m)
                  /\ r.next_attempt_at = now + webhook_debounce_seconds[b]
                  /\ r.state = PENDING
                  /\ \A old \in nudges :
                        old.backend_bot_id = b =>
                            /\ r.id = old.id
                            /\ old.attempts = 0 =>
                                  r.next_attempt_at >= old.next_attempt_at

\* C17: successive successful enqueues for one webhook-enabled backend
\* coalesce into one nudge, which carries the key of the latest message
\* and the freshly computed next_attempt_at = now + debounce, never earlier
\* than the one the scheduling before had set.
C17_Coalesce ==
    [][messages' # messages => C17_EnqueueStep]_vars

\* C17 witness: two messages were enqueued for one backend at different
\* times and its only nudge, the row of the first scheduling, carries the
\* key of the second message and the later next_attempt_at.
C17_SecondKey ==
    /\ Len(messages) = 2
    /\ messages[1].created_at < messages[2].created_at
    /\ deliveries[1].backend_bot_id = deliveries[2].backend_bot_id
    /\ \E r \in nudges :
          /\ nudges = {r}
          /\ r.id = 1
          /\ r.state = PENDING
          /\ r.attempts = 0
          /\ r.last_dedupe_key = messages[2].dedupe_key
          /\ r.next_attempt_at = messages[2].created_at + 1

\* C18: when the receiver answers the POST of a claimed nudge with a 2xx
\* status the dispatcher deletes that nudge; a pass that claimed the one
\* due PENDING nudge reports attempted = 1 and leaves the table empty.
C18_SuccessDeletes ==
    [][/\ (claimed = <<>> /\ claimed' # <<>>) =>
            (Cardinality(Due(now)) = 1 => ProcessOnceReturn(claimed') = 1)
       /\ (claimed # <<>> /\ task' = task) =>
            \A outcome \in {o \in Outcomes :
                                /\ o.request_error = NULL
                                /\ 200 <= o.status_code
                                /\ o.status_code < 300} :
                (/\ Posts(Head(claimed), outcome)
                 /\ nudges' = DeliverOne(Head(claimed), outcome)) =>
                    /\ \A r \in nudges' : r.id # Head(claimed).id
                    /\ (ProcessOnceReturn(claimed) = 1
                          /\ Cardinality(nudges) = 1) => nudges' = {}]_vars

\* C18 witness: after two enqueues were coalesced into one nudge and the
\* dispatcher claimed and posted it, the table is empty.
C18_OutboxCleared ==
    /\ Len(messages) = 2
    /\ nudges = {}
    /\ claimed = <<>>
    /\ next_uuid = 2
    /\ task = "running"

\* C19: the scheduling of s ends in this step and has written no nudge
\* for its message.
C19_SchedulingFailed(s) ==
    /\ s.op = "schedule"
    /\ sessions' = sessions \ {s}
    /\ \A r \in nudges' : r.last_dedupe_key # s.dedupe_key

\* C19: the delivery that the enqueue of s committed is there after the
\* step as it was before, and as long as it is PENDING every pending fetch
\* and every lease of its backend with room for all returns it.
C19_StillObtainable(s) ==
    \E d \in DeliveryIds :
        /\ messages[deliveries[d].discord_message_id].dedupe_key = s.dedupe_key
        /\ deliveries[d].backend_bot_id = s.backend_bot_id
        /\ d \in DeliveryIds'
        /\ deliveries'[d] = deliveries[d]
        /\ deliveries[d].state = PENDING =>
              /\ \A f \in FetchSessions(s.backend_bot_id, Len(deliveries))' :
                    d \in Range(FetchReturn(f))
              /\ \A l \in LeaseSessions(s.backend_bot_id, Len(deliveries), 1)' :
                    d \in Range(LeaseReturn(l))

\* C19: when the enqueue succeeded and the scheduling of the nudge fails,
\* nothing is raised to the caller of enqueue_message, and the message and
\* its delivery stay committed and obtainable through lease or the pending
\* fetch: the rollback of the scheduling undoes nothing of the enqueue.
C19_SchedulingFailureContained ==
    [][\A s \in sessions :
          C19_SchedulingFailed(s) =>
              /\ response' # Raised
              /\ messages' = messages
              /\ deliveries' = deliveries
              /\ inserted' = inserted
              /\ C19_StillObtainable(s)]_vars

\* C19 witness: a message was enqueued for the backend with a webhook, its
\* scheduling is over and there is no nudge, and the delivery is PENDING.
C19_EnqueuedWithoutNudge ==
    /\ Len(messages) = 1
    /\ deliveries[1].backend_bot_id \in DOMAIN webhook_debounce_seconds
    /\ deliveries[1].state = PENDING
    /\ enqueuing = {}
    /\ sessions = {}
    /\ nudges = {}
    /\ next_uuid = 1

\* C20: stopping the dispatcher leaks no SENDING row: once stop() has
\* completed, the outcome of every nudge the dispatcher had claimed is
\* persisted and no nudge is in state SENDING.
C20_NoSendingAfterStop ==
    task = NULL => \A r \in nudges : r.state # SENDING

\* C21: with two dispatcher workers claiming concurrently, no nudge is
\* returned as claimed to both: every nudge that a worker's claim returns
\* was still PENDING in the store when that claim committed, so no other
\* worker has claimed it since this worker selected it.
C21_ClaimedOnce ==
    [][\A s \in sessions :
          (/\ s.op = "claim"
           /\ s \notin sessions'
           /\ \E p \in sessions' : p.op = "pass" /\ p.worker = s.worker) =>
              \A i \in 1..Len(s.rows) :
                  \E r \in nudges : r.id = s.rows[i].id /\ r.state = PENDING]_vars

\* C22: for every POST the dispatcher sends, the X-Relay-Signature header
\* is the hex HMAC-SHA256, keyed with the backend's webhook secret, of the
\* X-Relay-Timestamp header value, then ".", then the bytes of the body of
\* that request.
C22_Signed ==
    [][\A outcome \in Outcomes :
          (/\ claimed # <<>>
           /\ claimed' = Tail(claimed)
           /\ Posts(Head(claimed), outcome)
           /\ request' = Posted(Head(claimed), outcome)) =>
              /\ request'.url = backend_webhooks[Head(claimed).backend_bot_id].url
              /\ request'.headers.XRelaySignature =
                    Hexdigest(
                        [key |-> ResolvedSecret(
                                    backend_webhooks[Head(claimed).backend_bot_id],
                                    outcome.env_value),
                         data |-> <<request'.headers.XRelayTimestamp>>
                                  \o <<".">> \o request'.content])]_vars

\* C22 witness: a POST for beta, whose secret comes from the environment,
\* was sent at time 1 and carries a signature keyed with that secret.
C22_SignedWithEnvSecret ==
    /\ request.url = DispatchWebhooks["beta"].url
    /\ request.headers.XRelayTimestamp = "1"
    /\ request.headers.XRelaySignature[2] = "envsecret"

\* C23: a nudge scheduling for a backend whose nudge row exists leaves that
\* row PENDING; attempts becomes 0 and last_error null if the row was
\* FAILED, and both are left as they were if it was not; a row that was
\* SENDING becomes PENDING with its attempts.
C23_RescheduleResets ==
    [][messages' # messages =>
         \A b \in DOMAIN webhook_debounce_seconds, bot \in DiscordBots,
            m \in MessageIds :
             (EnqueueMessage(b, Payload(bot, m)) /\ inserted') =>
                 \A old \in nudges :
                     old.backend_bot_id = b =>
                         \E r \in nudges' :
                             /\ r.id = old.id
                             /\ r.state = PENDING
                             /\ old.state = FAILED =>
                                   r.attempts = 0 /\ r.last_error = NULL
                             /\ old.state # FAILED =>
                                   /\ r.attempts = old.attempts
                                   /\ r.last_error = old.last_error]_vars

\* C23 witness: the row of the first scheduling was POSTed and marked
\* FAILED, and a second enqueue has made it PENDING with attempts 0 and no
\* last_error.
C23_FailedRevived ==
    /\ task = "running"
    /\ request.url # NULL
    /\ Len(messages) = 2
    /\ \E r \in nudges :
          /\ r.id = 1
          /\ r.state = PENDING
          /\ r.attempts = 0
          /\ r.last_error = NULL
          /\ r.last_dedupe_key = messages[2].dedupe_key

\* C24, a claim step: the pass claims the due PENDING nudges, earliest
\* next_attempt_at first, as many as the limit allows; each claimed nudge
\* goes to SENDING and nothing else of it changes, and every other nudge,
\* not yet due, SENDING or FAILED among them, is left as it is.
C24_ClaimStep ==
    LET due == {r \in nudges : r.state = PENDING /\ r.next_attempt_at <= now}
        Row(c) == CHOOSE r \in nudges : r.id = c.id
        got == {Row(claimed'[i]) : i \in 1..Len(claimed')}
    IN /\ \A i \in 1..Len(claimed') :
             /\ \E r \in due : r.id = claimed'[i].id
             /\ claimed'[i] = ClaimedNudge(Row(claimed'[i]))
             /\ \A j \in 1..Len(claimed') :
                   i < j => /\ claimed'[i].id # claimed'[j].id
                            /\ Row(claimed'[i]).next_attempt_at
                                  <= Row(claimed'[j]).next_attempt_at
       /\ \E limit \in ClaimLimits :
             Len(claimed') = IF Cardinality(due) < limit
                             THEN Cardinality(due) ELSE limit
       /\ \A r \in due \ got : \A g \in got :
             g.next_attempt_at <= r.next_attempt_at
       /\ nudges' = {IF r \in got THEN [r EXCEPT !.state = SENDING] ELSE r :
                        r \in nudges}

\* C24: a dispatcher pass claims only nudges that are PENDING with
\* next_attempt_at <= now, at most the limit and earliest first, and moves
\* each to SENDING; no other nudge is claimed; and as the clock never goes
\* back, the POST of a claimed nudge is not before the next_attempt_at the
\* nudge had when it was claimed.
C24_ClaimsDueOnly ==
    [][/\ (claimed = <<>> /\ claimed' # <<>>) => C24_ClaimStep
       /\ now' >= now]_vars

\* C24 witness: both backends have a nudge, the one due earlier was
\* claimed alone and is SENDING, and the other is still PENDING.
C24_EarlierClaimedFirst ==
    /\ Len(claimed) = 1
    /\ \E r, o \in nudges :
          /\ r.id = claimed[1].id
          /\ r.state = SENDING
          /\ o.state = PENDING
          /\ r.next_attempt_at < o.next_attempt_at
          /\ o.next_attempt_at <= now

\* C25, the nudge c went through reschedule with error: its row is FAILED
\* with its attempts if c.attempts + 1 exceeds max_retries, and PENDING
\* with attempts = c.attempts + 1 otherwise, and last_error = error.
C25_Rescheduled(c, error) ==
    \E r \in nudges' :
        /\ r.id = c.id
        /\ r.last_error = error
        /\ IF c.attempts + 1 > backend_webhooks[c.backend_bot_id].max_retries
           THEN r.state = FAILED
           ELSE r.state = PENDING /\ r.attempts = c.attempts + 1

\* C25, the nudge c was marked FAILED at once with error: its row is
\* FAILED, and of its other columns none has changed.
C25_Failed(c, error) ==
    \E r \in nudges' : \E old \in nudges :
        /\ r.id = c.id
        /\ old.id = c.id
        /\ r = [old EXCEPT !.state = FAILED, !.last_error = error]

\* C25: a POST that fails with status 429 or 5xx or with a transport error
\* goes through reschedule with last_error "http_status:<code>" or
\* "request_error:<class>"; any other 4xx status marks the nudge FAILED at
\* once with "http_status:<code>", and a secret that does not resolve marks
\* it FAILED with "secret_error:<class>" and no POST is sent.
C25_FailureOutcomes ==
    [][(claimed # <<>> /\ claimed' = Tail(claimed) /\ task' = task) =>
         LET c == Head(claimed)
             webhook == backend_webhooks[c.backend_bot_id]
         IN \A o \in Outcomes :
              (/\ nudges' = DeliverOne(c, o)
               /\ request' = Posted(c, o)) =>
                  IF ~(\/ Truthy(webhook.secret)
                       \/ Truthy(webhook.secret_env) /\ Truthy(o.env_value))
                  THEN /\ C25_Failed(c, "secret_error:ConfigError")
                       /\ request' = request
                  ELSE IF o.request_error # NULL
                  THEN C25_Rescheduled(c, "request_error:" \o o.request_error)
                  ELSE IF o.status_code = 429 \/ o.status_code >= 500
                  THEN C25_Rescheduled(
                           c, "http_status:" \o ToString(o.status_code))
                  ELSE IF 400 <= o.status_code /\ o.status_code < 500
                  THEN C25_Failed(
                           c, "http_status:" \o ToString(o.status_code))
                  ELSE TRUE]_vars

\* C25 witness: alpha's nudge was retried after a transport error and
\* beta's nudge is FAILED because its secret did not resolve.
C25_RetriedAndFailed ==
    \E r, o \in nudges :
        /\ r.state = PENDING
        /\ r.attempts = 1
        /\ r.last_error = "request_error:ConnectError"
        /\ o.state = FAILED
        /\ o.last_error = "secret_error:ConfigError"

\* C26: clamp(x, lo, hi)
C26_Clamp(x, lo, hi) == IF x < lo THEN lo ELSE IF x > hi THEN hi ELSE x

\* C26: a reschedule of a nudge claimed with prior_attempts takes
\* k = prior_attempts + 1; with k > max_retries the nudge is marked FAILED,
\* otherwise it becomes PENDING with attempts = k and next_attempt_at =
\* now + retry_backoff_seconds[clamp(k - 1, 0, len - 1)] (counted from 0),
\* so a retry beyond the end of the list takes its last entry.
C26_Backoff ==
    [][(claimed # <<>> /\ claimed' = Tail(claimed) /\ task' = task) =>
         LET c == Head(claimed)
             webhook == backend_webhooks[c.backend_bot_id]
             k == c.attempts + 1
             i == C26_Clamp(k - 1, 0, Len(webhook.retry_backoff_seconds) - 1)
         IN \A o \in Outcomes :
              (/\ nudges' = DeliverOne(c, o)
               /\ Posts(c, o)
               /\ \/ o.request_error # NULL
                  \/ o.status_code = 429
                  \/ o.status_code >= 500) =>
                  \E r \in nudges' :
                      /\ r.id = c.id
                      /\ IF k > webhook.max_retries
                         THEN r.state = FAILED
                         ELSE /\ r.state = PENDING
                              /\ r.attempts = k
                              /\ r.next_attempt_at =
                                    now + webhook.retry_backoff_seconds[i + 1]]_vars

\* C26 witness: beta, whose backoff list has one entry, was retried a
\* second time and waits that entry again; alpha, retried a second time,
\* waits its second entry.
C26_LastEntryReused ==
    \E r, o \in nudges :
        /\ r.backend_bot_id = "beta"
        /\ r.state = PENDING
        /\ r.attempts = 2
        /\ r.next_attempt_at = now + 1
        /\ o.backend_bot_id = "alpha"
        /\ o.state = PENDING
        /\ o.attempts = 2
        /\ o.next_attempt_at > now + 1

\* C27: h lists, oldest first and without repetition, the limit most recent
\* recorded messages of the channel whose timestamp is at most the given
\* one (all of them if they are fewer), whatever their deliveries are.
C27_Recent(h, channel_id, timestamp, limit) ==
    LET of_channel == {i \in 1..Len(messages) :
                         /\ messages[i].channel_id = channel_id
                         /\ messages[i].timestamp <= timestamp}
    IN /\ Range(h) \subseteq of_channel
       /\ Len(h) = IF Cardinality(of_channel) < limit
                   THEN Cardinality(of_channel) ELSE limit
       /\ Cardinality(Range(h)) = Len(h)
       /\ \A i, j \in 1..Len(h) :
             i < j => messages[h[i]].timestamp <= messages[h[j]].timestamp
       /\ \A i \in 1..Len(h), d \in of_channel \ Range(h) :
             messages[d].timestamp <= messages[h[i]].timestamp

\* C27 as stated, for a Lease that returns deliveries: if some leased
\* message has a channel_id, the history requested is the most recent
\* messages of such a channel up to the first leased message's timestamp.
C27_AnyLeasedChannelStep ==
    \A b \in keys, limit \in Limits, secs \in LeaseSeconds :
        \A s \in LeaseSessions(b, limit, secs) :
            LeaseRun(s) =>
                LET leased == [i \in 1..Len(s.rows) |->
                        messages[deliveries[s.rows[i]].discord_message_id]]
                IN \A n \in HistoryLimits :
                    (\E i \in 1..Len(leased) : Truthy(leased[i].channel_id))
                    => \A h \in LeaseHistory(s, TRUE, n) :
                          \E i \in 1..Len(leased) :
                              /\ Truthy(leased[i].channel_id)
                              /\ C27_Recent(h, leased[i].channel_id,
                                            leased[1].timestamp, n)

\* C27 as stated: when Lease is called with include_history and at least
\* one leased message has a channel_id, the history is the up-to-
\* history_limit most recent messages of that channel with timestamp <= the
\* first leased message's timestamp, in chronological order.
C27_AnyLeasedChannel ==
    [][next_uuid' # next_uuid => C27_AnyLeasedChannelStep]_vars

\* C27 for a Lease that returns deliveries: the channel is the one of the
\* first leased message; without it, or without include_history, the
\* history is empty.
C27_FirstLeasedChannelStep ==
    \A b \in keys, limit \in Limits, secs \in LeaseSeconds :
        \A s \in LeaseSessions(b, limit, secs) :
            LeaseRun(s) =>
                LET first ==
                        messages[deliveries[s.rows[1]].discord_message_id]
                IN \A n \in HistoryLimits :
                    /\ LeaseHistory(s, FALSE, n) = {<<>>}
                    /\ LeaseHistory(s, TRUE, n) # {}
                    /\ \A h \in LeaseHistory(s, TRUE, n) :
                          IF Truthy(first.channel_id)
                          THEN C27_Recent(h, first.channel_id,
                                          first.timestamp, n)
                          ELSE h = <<>>

\* C27 for a Lease that returns nothing: the history is empty.
C27_NothingLeased ==
    \A b \in keys, limit \in Limits, secs \in LeaseSeconds :
        \A s \in LeaseSessions(b, limit, secs) :
            s.rows = <<>> =>
                \A n \in HistoryLimits :
                    /\ LeaseHistory(s, TRUE, n) = {<<>>}
                    /\ LeaseHistory(s, FALSE, n) = {<<>>}

\* C27, amended: when Lease is called with include_history and the first
\* leased message has a channel_id, the history is the up-to-history_limit
\* most recent recorded messages of the first leased message's channel
\* with timestamp <= its timestamp, in chronological order, regardless of
\* delivery state or backend; when include_history is false, nothing is
\* leased, or the first leased message has no channel_id, it is empty.
C27_FirstLeasedChannel ==
    /\ []C27_NothingLeased
    /\ [][next_uuid' # next_uuid => C27_FirstLeasedChannelStep]_vars

\* C27 witness: a delivery is leased whose message has a channel, and an
\* older message of that channel went to the other backend and is already
\* DELIVERED: the lease's history holds both messages.
C27_HistoryAcrossBackends ==
    \E d, e \in DeliveryIds :
        LET m == messages[deliveries[d].discord_message_id]
            o == messages[deliveries[e].discord_message_id]
        IN /\ deliveries[d].state = LEASED
           /\ deliveries[e].state = DELIVERED
           /\ deliveries[e].backend_bot_id # deliveries[d].backend_bot_id
           /\ Truthy(m.channel_id)
           /\ o.channel_id = m.channel_id
           /\ o.timestamp < m.timestamp

\* C28 for an enqueue of (b, bot, m): the call changes webhook_nudges only
\* if it inserted the message and b has a webhook debounce.
C28_EnqueueStep ==
    \A b \in keys, bot \in DiscordBots, m \in MessageIds :
        (/\ EnqueueMessage(b, Payload(bot, m))
         /\ ~inserted' \/ b \notin DOMAIN webhook_debounce_seconds) =>
            nudges' = nudges

\* C28: enqueue schedules or refreshes a nudge only when the message was
\* inserted and a debounce is configured for the backend: a duplicate
\* enqueue and an enqueue for a backend without webhook leave the
\* webhook_nudges table unchanged.
C28_NudgeOnlyWhenInserted ==
    [][(messages' # messages \/ inserted' # inserted) => C28_EnqueueStep]_vars

\* C28 witness: a message for the backend with a webhook and one for the
\* backend without were enqueued, and later a duplicate: the only nudge is
\* still the one the first message scheduled, with its next_attempt_at.
C28_DuplicateLeftNudge ==
    /\ Len(messages) = 2
    /\ ~inserted
    /\ deliveries[1].backend_bot_id \in DOMAIN webhook_debounce_seconds
    /\ deliveries[2].backend_bot_id \notin DOMAIN webhook_debounce_seconds
    /\ \E r \in nudges :
          /\ nudges = {r}
          /\ r.backend_bot_id = deliveries[1].backend_bot_id
          /\ r.last_dedupe_key = messages[1].dedupe_key
          /\ r.state = PENDING
          /\ r.next_attempt_at = messages[1].created_at + 1
          /\ r.next_attempt_at < now + 1

\* C29: the reaper keeps running, also after a pass that raised: every
\* delivery that is LEASED with its lease_expires_at passed is eventually
\* not LEASED any more: PENDING again or, if it was acked meanwhile,
\* DELIVERED.
C29_ExpiredReturn ==
    \A d \in 1..MaxMessageId :
        (d \in Expired(now)) ~>
            (/\ d \in DeliveryIds
             /\ deliveries[d].state \in {PENDING, DELIVERED})

\* C29 witness: the reaper has returned a delivery to PENDING while
\* another one, leased later, is still LEASED, and the task sleeps until
\* its next pass.
C29_ReapedOne ==
    \E d, e \in DeliveryIds :
        /\ deliveries[d].state = PENDING
        /\ deliveries[d].last_error = LEASE_EXPIRED
        /\ deliveries[d].lease_id = None
        /\ deliveries[e].state = LEASED
        /\ reaper_task = "sleep"

\* C30: an Ack that runs while a reaper pass is under way on the same
\* expired lease is not undone: a delivery the reaper pass had selected
\* and that an Ack has made DELIVERED (and counted) since is still
\* DELIVERED when the pass has committed, not PENDING again.
C30_AckSurvivesReap ==
    [][\A s \in sessions :
          (s.op = "reap" /\ s \notin sessions') =>
              \A d \in Range(s.rows) :
                  (/\ deliveries[d].state = DELIVERED
                   /\ deliveries[d].delivered_at # None) =>
                      deliveries'[d].state = DELIVERED]_vars

\* C31: a refresh that an enqueue made while the nudge was claimed and its
\* POST in flight is not lost: when the delivery of a claimed nudge
\* completes and the row of that id is PENDING again (an enqueue has
\* refreshed it since the claim), the completion leaves that row in the
\* table as the enqueue wrote it.
C31_RefreshKept ==
    [][(/\ claimed # <<>>
        /\ claimed' = Tail(claimed)
        /\ task' = "running") =>
           \A r \in nudges :
               (r.id = Head(claimed).id /\ r.state = PENDING) =>
                   r \in nudges']_vars

\* C32: a pending fetch and a Lease of one backend that overlap, or two
\* pending fetches, never return the same delivery: when a pending fetch
\* commits and returns its deliveries, none of them has been handed out
\* (LEASED or DELIVERED) by another call since the fetch selected it, and
\* when a Lease commits, none of its deliveries has been DELIVERED by a
\* pending fetch meanwhile.
C32_HandedOutOnce ==
    [][\A s \in sessions :
          /\ (s.op = "fetch" /\ s \notin sessions') =>
                \A d \in Range(FetchReturn(s)) :
                    deliveries[d].state = PENDING
          /\ (s.op = "lease" /\ s \notin sessions') =>
                \A d \in Range(LeaseReturn(s)) :
                    deliveries[d].state # DELIVERED]_vars

\* C33: the call of backend b that makes this step returned the
\* deliveries in rows: all of them are b's, and the step leaves every
\* delivery of another backend as it was.
C33_Own(b, rows) ==
    /\ \A d \in Range(rows) : deliveries[d].backend_bot_id = b
    /\ \A d \in DeliveryIds :
          deliveries[d].backend_bot_id # b => deliveries'[d] = deliveries[d]

\* C33, per step: a pending fetch, a Lease, an Ack or a Nack of backend b,
\* whatever delivery ids and lease id it presents.
C33_Step ==
    \A b \in keys :
        /\ \A limit \in Limits : \A s \in FetchSessions(b, limit) :
              FetchRun(s) => C33_Own(b, FetchReturn(s))
        /\ \A limit \in Limits, secs \in LeaseSeconds :
              \A s \in LeaseSessions(b, limit, secs) :
                  LeaseRun(s) => C33_Own(b, LeaseReturn(s))
        /\ \A ids \in NamedSets, l \in LeaseIds :
              /\ AckRun(AckSession(b, ids, l)) =>
                    C33_Own(b, AckSession(b, ids, l).rows)
              /\ \A r \in Reasons :
                    NackRun(NackSession(b, ids, l, r)) =>
                        C33_Own(b, NackSession(b, ids, l, r).rows)

\* C33: Lease, the pending fetch, Ack and Nack performed for backend A
\* never return or modify a delivery of a backend B # A, whatever
\* delivery ids and lease ids A presents, B's included.
C33_BackendIsolation ==
    [][(deliveries' # deliveries /\ messages' = messages) => C33_Step]_vars

\* C33 witness: a delivery of one backend was leased and acked while a
\* delivery of the other backend is LEASED under another lease_id, which
\* the acks and nacks of the first backend were free to present.
C33_OthersLeaseUntouched ==
    \E d, e \in DeliveryIds :
        /\ deliveries[d].backend_bot_id # deliveries[e].backend_bot_id
        /\ deliveries[d].state = DELIVERED
        /\ deliveries[d].lease_id # None
        /\ deliveries[e].state = LEASED
        /\ deliveries[e].lease_id # deliveries[d].lease_id
        /\ deliveries[e].attempts = 1
        /\ deliveries[e].last_error = NULL

\* C34: lease id l holds delivery d: d is LEASED and carries l.
C34_Holds(l, d) ==
    deliveries[d].state = LEASED /\ deliveries[d].lease_id = l

\* C34 for an Ack or a Nack that presents lease id l and whose SELECT
\* loaded rows: a delivery that l does not hold (it was nacked, reaped,
\* acked, or leased again under another id) is not among the rows counted
\* and is left as it was.
C34_Unusable(l, rows) ==
    \A d \in DeliveryIds :
        ~C34_Holds(l, d) =>
            /\ d \notin Range(rows)
            /\ deliveries'[d] = deliveries[d]

\* C34, per step of an Ack, a Nack or a Lease.
C34_Step ==
    /\ \A b \in keys, ids \in NamedSets, l \in LeaseIds :
          /\ AckRun(AckSession(b, ids, l)) =>
                C34_Unusable(l, AckSession(b, ids, l).rows)
          /\ \A r \in Reasons :
                NackRun(NackSession(b, ids, l, r)) =>
                    C34_Unusable(l, NackSession(b, ids, l, r).rows)
    /\ \A b \in keys, limit \in Limits, secs \in LeaseSeconds :
          \A s \in LeaseSessions(b, limit, secs) :
              (LeaseRun(s) /\ s.rows # <<>>) =>
                  /\ s.lease_id \notin LeaseIds
                  /\ \A d \in DeliveryIds :
                        deliveries[d].lease_id # s.lease_id
                  /\ \A d \in Range(s.rows) :
                        deliveries'[d].lease_id = s.lease_id

\* C34: a lease_id stops being usable once its hold ends: an Ack or Nack
\* presenting it for a delivery that was nacked, reaped or leased again
\* under a new lease_id transitions nothing and does not count that
\* delivery; every Lease uses a lease_id different from all earlier ones.
C34_StaleLeaseUnusable ==
    [][(deliveries' # deliveries /\ messages' = messages) => C34_Step]_vars

\* C34 witness: a delivery whose first lease expired and was reaped is
\* LEASED for the second time, under the second lease id; acks and nacks
\* presenting the first id have been possible since the reap.
C34_LeasedUnderSecondId ==
    \E d \in DeliveryIds :
        /\ deliveries[d].state = LEASED
        /\ deliveries[d].attempts = 2
        /\ deliveries[d].lease_id = 2
        /\ deliveries[d].last_error = LEASE_EXPIRED

C36_Paired ==
    /\ \A d \in DeliveryIds :
          deliveries[d].discord_message_id \in 1..Len(messages)
    /\ \A i \in 1..Len(messages) :
          \E d \in DeliveryIds :
              /\ deliveries[d].discord_message_id = i
              /\ \A e \in DeliveryIds :
                    deliveries[e].discord_message_id = i => e = d

\* C36 (step part): a step inserts a message and a delivery together or
\* neither, leaves every stored message as it is and never changes the
\* message a delivery references.
C36_Step ==
    /\ Len(messages') >= Len(messages)
    /\ \A i \in 1..Len(messages) : messages'[i] = messages[i]
    /\ Len(deliveries') - Len(deliveries) = Len(messages') - Len(messages)
    /\ Len(messages') - Len(messages) \in {0, 1}
    /\ \A d \in DeliveryIds :
          deliveries'[d].discord_message_id = deliveries[d].discord_message_id

\* C36: in every reachable state each message has exactly one delivery and
\* each delivery references an existing message; an enqueue inserts both
\* rows or neither, no operation adds a second delivery for a message, and
\* no operation modifies or deletes a message once it is inserted.
C36_MessageDeliveryPairs ==
    /\ []C36_Paired
    /\ [][C36_Step]_vars

\* C36 witness: two messages are stored, one delivered and one returned to
\* the queue after a lease, and a further enqueue of a stored key has been
\* refused.
C36_PairsAfterTraffic ==
    /\ Len(messages) = 2
    /\ inserted = FALSE
    /\ \E d, e \in DeliveryIds :
          /\ deliveries[d].state = DELIVERED
          /\ deliveries[e].state = PENDING
          /\ deliveries[e].attempts >= 1

\* C37: no step changes the created_at of a stored delivery.
C37_KeepsCreatedAt ==
    \A d \in DeliveryIds :
        deliveries'[d].created_at = deliveries[d].created_at

\* A delivery that a Nack or the reaper returned to PENDING: it is PENDING
\* and was leased before.
C37_Returned(d) ==
    /\ deliveries[d].state = PENDING
    /\ deliveries[d].attempts >= 1

\* C37 for a Lease of (b, limit): whenever the lease returns a delivery
\* created after a returned delivery of b, it returns the returned delivery
\* too, earlier in the list.
C37_LeaseStep ==
    \A b \in keys, limit \in Limits, secs \in LeaseSeconds :
        \A s \in LeaseSessions(b, limit, secs) :
            LeaseRun(s) =>
                LET got == LeaseReturn(s) IN
                \A d \in PendingOf(b) :
                    C37_Returned(d) =>
                        \A j \in 1..Len(got) :
                            deliveries[got[j]].created_at
                                  > deliveries[d].created_at
                               => \E i \in 1..(j - 1) : got[i] = d

\* C37: a delivery that returns to PENDING through Nack or Reap keeps its
\* created_at, and the next Lease of its backend returns it before any
\* PENDING delivery that was created after it.
C37_KeepsQueuePosition ==
    [][/\ C37_KeepsCreatedAt
       /\ next_uuid' # next_uuid => C37_LeaseStep]_vars

\* C37 witness: a delivery was leased, returned to PENDING and leased again
\* in one call with a delivery created after it that is leased for the
\* first time.
C37_ReturnedLeasedWithYounger ==
    \E d, e \in DeliveryIds :
        /\ deliveries[d].state = LEASED
        /\ deliveries[d].attempts = 2
        /\ deliveries[e].state = LEASED
        /\ deliveries[e].attempts = 1
        /\ deliveries[e].lease_id = deliveries[d].lease_id
        /\ deliveries[d].created_at < deliveries[e].created_at

\* C38 (state part): the attempts of a nudge, stored or claimed, never
\* exceed the max_retries of its backend: the POST sent for a nudge claimed
\* with attempts = k is at most the (k + 1)-th since its attempts were 0.
C38_AttemptsBounded ==
    /\ \A r \in nudges :
          r.attempts <= backend_webhooks[r.backend_bot_id].max_retries
    /\ \A i \in 1..Len(claimed) :
          claimed[i].attempts
             <= backend_webhooks[claimed[i].backend_bot_id].max_retries

\* C38 for one turn of the dispatcher's loop: a POST that fails with a
\* retryable outcome counts one attempt more on the row, which is PENDING
\* again, until the POST of the nudge claimed with attempts = max_retries,
\* which marks it FAILED; and the nudge the turn is for is not FAILED.
C38_RetryStep ==
    (claimed # <<>> /\ claimed' = Tail(claimed) /\ task' = task) =>
        LET c == Head(claimed)
            webhook == backend_webhooks[c.backend_bot_id]
        IN /\ \A r \in nudges : r.id = c.id => r.state # FAILED
           /\ \A o \in Outcomes :
                 (/\ nudges' = DeliverOne(c, o)
                  /\ Posts(c, o)
                  /\ \/ o.request_error # NULL
                     \/ o.status_code = 429
                     \/ o.status_code >= 500) =>
                     \A r \in nudges' :
                         r.id = c.id =>
                            IF c.attempts = webhook.max_retries
                            THEN r.state = FAILED
                            ELSE /\ r.state = PENDING
                                 /\ r.attempts = c.attempts + 1
                                 /\ r.attempts <= webhook.max_retries

\* C38 for a FAILED nudge: a pass does not claim it, and it stays FAILED
\* on every step but that of an enqueue that inserts a message.
C38_FailedStays ==
    \A r \in nudges :
        r.state = FAILED =>
            /\ \A i \in 1..Len(claimed') :
                  claimed' # claimed => claimed'[i].id # r.id
            /\ messages' = messages => r \in nudges'

\* C38: a nudge whose POSTs keep failing with retryable outcomes, and that
\* no enqueue refreshes, is POSTed at most max_retries + 1 times and is
\* then FAILED; a FAILED nudge is neither claimed nor POSTed again until
\* an enqueue resets it.
C38_RetriesEnd ==
    /\ []C38_AttemptsBounded
    /\ [][C38_RetryStep /\ C38_FailedStays]_vars

\* C38 witness: a nudge is FAILED after the POST that followed its
\* max_retries-th retry failed with a retryable outcome.
C38_FailedAfterLastRetry ==
    \E r \in nudges :
        /\ r.state = FAILED
        /\ r.attempts = backend_webhooks[r.backend_bot_id].max_retries
        /\ r.attempts = 2
        /\ r.last_error \in {"request_error:ConnectError",
                             "http_status:500", "http_status:429"}

\* The nudge of backend b is SENDING.
C39_Sending(b) ==
    \E r \in nudges : r.backend_bot_id = b /\ r.state = SENDING

\* C39: while the dispatcher keeps running, a nudge that a pass claimed
\* does not stay SENDING for ever: it is eventually deleted, PENDING again
\* or FAILED, also when the delivery of another nudge of its batch raises
\* and aborts the pass.
C39_SendingEnds ==
    \A b \in Backends : C39_Sending(b) ~> ~C39_Sending(b)

\* The most deliveries a run stores: the one it starts with and one for
\* each message the gateway hands over.
C40_MaxDeliveries == MaxMessageId * Cardinality(DiscordBots) + 1

\* C40: every delivery of a backend that keeps calling Lease and
\* acknowledges what it receives before the lease expires is eventually
\* DELIVERED, whatever is nacked or reaped and whatever newer deliveries
\* are enqueued for it or for other backends.  Delivery 1 is the one the
\* run starts with, which is beta's.
C40_EventuallyDelivered ==
    \A d \in 2..C40_MaxDeliveries :
        (/\ d \in DeliveryIds
         /\ deliveries[d].backend_bot_id = "alpha"
         /\ deliveries[d].state = PENDING)
            ~> (d \in DeliveryIds /\ deliveries[d].state = DELIVERED)

\* C40 witness: two deliveries of alpha, one created after the other, are
\* DELIVERED, while the delivery of beta is PENDING again after its lease
\* ended.
C40_DrainedBesideReturned ==
    \E d, e, f \in DeliveryIds :
        /\ deliveries[d].backend_bot_id = "alpha"
        /\ deliveries[e].backend_bot_id = "alpha"
        /\ deliveries[d].state = DELIVERED
        /\ deliveries[e].state = DELIVERED
        /\ deliveries[d].created_at < deliveries[e].created_at
        /\ deliveries[f].backend_bot_id = "beta"
        /\ deliveries[f].state = PENDING
        /\ deliveries[f].attempts = 1

====
